---------------------------- MODULE Spec2Model ----------------------------
(***************************************************************************)
(* A model of the fiskta fuzzer (src/fuzz.py).                             *)
(*                                                                         *)
(* Spec / FairSpec : the parallel coordinator (run_fuzzer) and its worker  *)
(*                   processes (worker_fn), with the files they share.     *)
(* GenSpec         : the part of an iteration of worker_fn that builds the *)
(*                   program: gen_random_program, mutate_program and       *)
(*                   mutate_for_input_mismatch, up to the call of          *)
(*                   run_fiskta.                                           *)
(* CaseSpec        : one iteration of worker_fn from the call of           *)
(*                   run_fiskta on: minimize_tokens, save_case, and        *)
(*                   repro_case reading the case back.  Programs are token *)
(*                   sequences, tokens are character sequences, and the    *)
(*                   target is deterministic: it answers a program it has  *)
(*                   seen before as it did the first time.                 *)
(* FixedSpec       : the run of Spec with --cases n for every n from 0 on, *)
(*                   under weak fairness of the workers' steps.            *)
(* HarnessSpec     : one call of run_fiskta.                               *)
(* ByteSpec        : one call of one byte mutator.                         *)
(* SpliceSpec      : mutate_splice applied in sequence.                    *)
(* TwinSpec        : two runs with the same seed and configuration.        *)
(* FlakySpec       : the iteration of CaseSpec on a target whose result    *)
(*                   can change between executions, under weak fairness of *)
(*                   the turns of minimize_tokens.                         *)
(* JudgeSpec       : same_failure on results of run_fiskta.                *)
(***************************************************************************)
EXTENDS Integers, Sequences, FiniteSets, TLC

(***************************************************************************)
(* Bounds of the model.                                                    *)
(***************************************************************************)
MaxWorkers == 2    \* cfg.workers ranges over 1..MaxWorkers
MaxCases   == 2    \* --cases ranges up to MaxCases; in continuous mode the
                   \* model stops starting cases at id MaxCases
MaxTokens  == 3    \* CaseSpec: programs handed to run_fiskta hold 0..MaxTokens tokens
MaxOps     == 2    \* GenSpec: cfg.min_ops <= cfg.max_ops range over -1..MaxOps
MaxMutOps  == 1    \* GenSpec: mutate_program is followed for generated programs
                   \* of at most MaxMutOps operations
MaxExitCode == 255 \* HarnessSpec: the child exits with a code in 0..MaxExitCode
MaxSignal  == 64   \* HarnessSpec: or is killed by a signal in 1..MaxSignal
MaxBytes   == 2    \* ByteSpec: the data handed to a byte mutator holds 0..MaxBytes bytes
MaxCorpus  == 2    \* ByteSpec: _corpus holds 0..MaxCorpus entries
MaxSplices == 1    \* SpliceSpec: mutate_splice is followed MaxSplices times in sequence
MaxSeed    == 1    \* TwinSpec: cfg.seed ranges over 0..MaxSeed
MaxIters   == 2    \* TwinSpec: a worker generates at most MaxIters cases
MaxJudged  == 3    \* JudgeSpec: same_failure compares up to MaxJudged results

(***************************************************************************)
(* Execution harness: run_fiskta classifies what the child process did.    *)
(***************************************************************************)
TIMEOUT_CODE == -2

\* What the target can do: return with a code, die of a signal, or hang.
TargetOutcomes ==
    {[kind |-> "exit", n |-> 0], [kind |-> "signal", n |-> 11],
     [kind |-> "timeout", n |-> 0]}

\* subprocess.run gives returncode -n for a child killed by signal n.
ReturnCode(o) == IF o.kind = "signal" THEN -o.n ELSE o.n

Abs(n) == IF n < 0 THEN -n ELSE n

\* The shell's reading, in which a code above 128 also means a signal.
RunFisktaShellCodes(o) ==
    IF o.kind = "timeout"
    THEN [crashed |-> FALSE, timed_out |-> TRUE, exit_code |-> TIMEOUT_CODE,
          signal_num |-> 0]
    ELSE LET exit_code == ReturnCode(o) IN
         IF exit_code < 0 \/ exit_code > 128
         THEN [crashed |-> TRUE, timed_out |-> FALSE,
               exit_code |-> IF exit_code < 0 THEN 128 + Abs(exit_code) ELSE exit_code,
               signal_num |-> IF exit_code < 0 THEN Abs(exit_code) ELSE exit_code - 128]
         ELSE [crashed |-> FALSE, timed_out |-> FALSE, exit_code |-> exit_code,
               signal_num |-> 0]

RunFiskta(o) ==
    IF o.kind = "timeout"
    THEN [crashed |-> FALSE, timed_out |-> TRUE, exit_code |-> TIMEOUT_CODE,
          signal_num |-> 0]
    ELSE LET exit_code == ReturnCode(o) IN
         IF exit_code < 0
         THEN [crashed |-> TRUE, timed_out |-> FALSE,
               exit_code |-> 128 + Abs(exit_code), signal_num |-> Abs(exit_code)]
         ELSE [crashed |-> FALSE, timed_out |-> FALSE, exit_code |-> exit_code,
               signal_num |-> 0]

\* What the target does in a run: the outcomes above, and a return with code
\* 10, one of the codes that worker_fn counts as a crash and saves.
RunOutcomes == TargetOutcomes \cup {[kind |-> "exit", n |-> 10]}

Codes == {RunFiskta(o).exit_code : o \in RunOutcomes}

(***************************************************************************)
(* State of a run.                                                         *)
(***************************************************************************)
VARIABLES
    cfg,          \* Config: workers, cases, minimize, save_all, min_ops, max_ops
    phase,        \* CONFIGURING, RUNNING, COMPLETED, INTERRUPTED, SUMMARIZED, ABORTED
    cpc,          \* the coordinator's position in run_fuzzer
    wpc,          \* each worker's position in worker_fn
    case_iter,    \* worker_fn: case_iter
    stats,        \* worker_fn: stats
    tmpfile,      \* worker_<i>_stats.tmp
    statsfile,    \* worker_<i>_stats.txt
    tmpbin,       \* the tmp_<w>_<id>.bin files present, as <<w, id>>
    casefiles,    \* the case_<id>.<suffix> files present, as <<id, suffix>>
    ran,          \* history: the iterations executed, [w, k, id]
    flushed,      \* history: the contents of each worker's completed flushes
    lastRead,     \* what the coordinator's latest read of a snapshot returned
    pollIdx,      \* run_fuzzer: i of the polling loop
    agg,          \* run_fuzzer: agg['total'] being summed
    last_agg,     \* run_fuzzer: last_agg['total']
    worker_stats, \* run_fuzzer: TRUE once result.get() returned the stats
    interrupted,  \* run_fuzzer: interrupted
    agg_stats,    \* run_fuzzer: agg_stats
    summary,      \* run_summary.txt
    \* one iteration of worker_fn, at token level
    ipc,          \* position in the iteration
    ops,          \* worker_fn: ops, the program handed to run_fiskta
    input_data,   \* worker_fn: input_data
    oracle,       \* the target's answers so far, by program (the input is fixed)
    res,          \* worker_fn: res
    best,         \* minimize_tokens: best
    mi,           \* minimize_tokens: i
    improved,     \* minimize_tokens: improved
    final_ops,    \* worker_fn: final_ops
    casefile,     \* case_<id>.ops.txt, .input.bin and .meta.txt
    repro_ops,    \* repro_case: ops
    repro_res,    \* repro_case: res
    mode,         \* worker_fn: the branch that roll selected to build ops
    nmut,         \* mutate_program: the mutations still to apply
    \* single calls of the harness and of the byte mutators
    child,        \* run_fiskta: how the child process ended
    data,         \* the byte mutators: data, the bytes returned last
    corpus,       \* _corpus
    prev,         \* the bytes passed to the mutator applied last
    last,         \* the mutator applied last
    napplied,     \* the number of mutators applied so far
    \* two runs started with the same seed, configuration and corpus
    twin,         \* of each run and worker: the state of random, the position in
                  \* worker_fn, the (ops, input_data) generated, the last result
    \* the target as minimize_tokens meets it, and calls of same_failure
    target,       \* "deterministic": a program and input always get the same
                  \* result; "flaky": the result can change between executions
    judge         \* the results run_fiskta returned, and for each two of them
                  \* what same_failure returned

runVars == <<phase, cpc, wpc, case_iter, stats, tmpfile, statsfile, tmpbin,
             casefiles, ran, flushed, lastRead, pollIdx, agg, last_agg,
             worker_stats, interrupted, agg_stats, summary>>

genVars == <<mode, nmut>>

unitVars == <<child, data, corpus, prev, last, napplied, twin>>

iterVars == <<ipc, ops, input_data, oracle, res, best, mi, improved, final_ops,
              casefile, repro_ops, repro_res, genVars, unitVars>>

auxVars == <<target, judge>>

vars == <<cfg, runVars, iterVars, auxVars>>

Workers == 0 .. (cfg.workers - 1)
AllWorkers == 0 .. (MaxWorkers - 1)

ZeroExits == [c \in Codes |-> 0]
ZeroStats == [total |-> 0, saved |-> 0, timeouts |-> 0, crashed |-> 0,
              exits |-> ZeroExits]

\* A file is absent, holds a partially written text, or holds a full text.
AbsentFile == [st |-> "absent", data |-> ZeroStats]
PartialFile == [st |-> "partial", data |-> ZeroStats]
FullFile(s) == [st |-> "full", data |-> s]

\* The latest read: whose snapshot, what it returned, and where its writer stood.
NoRead == [w |-> 0, file |-> AbsentFile, during |-> "none"]

\* parse_args: --minimize is on, --save-all is off, --min-ops is 3 and
\* --max-ops is 15 unless the user says so; --seed is the time of day, which
\* is 0 here.
\* Config.cases is Optional[int]: None, or <<n>> for --cases n.
None == <<>>

\* bool(x) of an Optional[int]: None and 0 are false.
Truthy(x) == x # None /\ x # <<0>>

DefaultConfig ==
    [workers |-> 1, cases |-> None, seed |-> 0, minimize |-> TRUE,
     save_all |-> FALSE, min_ops |-> 3, max_ops |-> 15]

\* Continuous mode, or a fixed count of at least one case.
CaseCounts == {None} \cup {<<n>> : n \in 1 .. MaxCases}

Configs ==
    {[DefaultConfig EXCEPT !.workers = w, !.cases = n, !.save_all = sa] :
        w \in 1 .. MaxWorkers, n \in CaseCounts, sa \in BOOLEAN}

\* The state of run_fuzzer before the pool is created.
RunInit ==
    /\ phase = "CONFIGURING"
    /\ cpc = "spawn"
    /\ wpc = [w \in AllWorkers |-> "unborn"]
    /\ case_iter = [w \in AllWorkers |-> 0]
    /\ stats = [w \in AllWorkers |-> ZeroStats]
    /\ tmpfile = [w \in AllWorkers |-> AbsentFile]
    /\ statsfile = [w \in AllWorkers |-> AbsentFile]
    /\ tmpbin = {}
    /\ casefiles = {}
    /\ ran = {}
    /\ flushed = [w \in AllWorkers |-> {}]
    /\ lastRead = NoRead
    /\ pollIdx = 0
    /\ agg = 0
    /\ last_agg = 0
    /\ worker_stats = FALSE
    /\ interrupted = FALSE
    /\ agg_stats = ZeroStats
    /\ summary = AbsentFile

\* No TestResult: run_fiskta never gives exit_code -1 with crashed False.
NoResult == [crashed |-> FALSE, timed_out |-> FALSE, exit_code |-> -1,
             signal_num |-> 0]

\* exit=, signal= and timed_out= of case_<id>.meta.txt
Meta(r) == [exit |-> r.exit_code, signal |-> r.signal_num, timed_out |-> r.timed_out]

NoCase == [st |-> "absent", ops_txt |-> <<>>, input_bin |-> <<>>,
           meta |-> Meta(NoResult)]

NoChild == [kind |-> "none", n |-> 0]

\* No single call is followed.
UnitIdle ==
    /\ child = NoChild
    /\ data = <<>>
    /\ corpus = <<>>
    /\ prev = <<>>
    /\ last = "none"
    /\ napplied = 0
    /\ twin = <<>>

NoJudge == [rs |-> <<>>, same |-> <<>>]

\* The target is deterministic and no call of same_failure is followed.
AuxIdle ==
    /\ target = "deterministic"
    /\ judge = NoJudge

\* The token-level iteration is not followed.
IterIdle ==
    /\ ipc = "idle"
    /\ ops = <<>>
    /\ input_data = <<>>
    /\ oracle = <<>>
    /\ res = NoResult
    /\ best = <<>>
    /\ mi = 0
    /\ improved = FALSE
    /\ final_ops = <<>>
    /\ casefile = NoCase
    /\ repro_ops = <<>>
    /\ repro_res = NoResult
    /\ mode = "none"
    /\ nmut = 0
    /\ UnitIdle

Init ==
    /\ cfg \in Configs
    /\ AuxIdle
    /\ RunInit
    /\ IterIdle

(***************************************************************************)
(* worker_fn                                                               *)
(***************************************************************************)
\* case_id = worker_id + case_iter * num_workers
CaseIdNoStride(w, k, n) == w + k
CaseId(w, k, n) == w + k * n

\* if cfg.cases and case_id >= cfg.cases: break
LoopEndsOffByOne(id) == Truthy(cfg.cases) /\ id > cfg.cases[1]
LoopEnds(id) == Truthy(cfg.cases) /\ id >= cfg.cases[1]

\* The loop's exit: return stats.
WorkerReturn(w) ==
    /\ wpc[w] = "top"
    /\ LoopEnds(CaseId(w, case_iter[w], cfg.workers))
    /\ wpc' = [wpc EXCEPT ![w] = "returned"]
    /\ UNCHANGED <<cfg, auxVars, iterVars,
                   phase, cpc, case_iter, stats, tmpfile, statsfile, tmpbin,
                   casefiles, ran, flushed, lastRead, pollIdx, agg, last_agg,
                   worker_stats, interrupted, agg_stats, summary>>

\* Generate the program and the input, write tmp_<w>_<id>.bin, start the target.
WorkerStartCase(w) ==
    LET id == CaseId(w, case_iter[w], cfg.workers) IN
    /\ wpc[w] = "top"
    /\ ~LoopEnds(id)
    /\ ~Truthy(cfg.cases) => id < MaxCases
    /\ tmpbin' = tmpbin \cup {<<w, id>>}
    /\ ran' = ran \cup {[w |-> w, k |-> case_iter[w], id |-> id]}
    /\ wpc' = [wpc EXCEPT ![w] = "run"]
    /\ UNCHANGED <<cfg, auxVars, iterVars,
                   phase, cpc, case_iter, stats, tmpfile, statsfile,
                   casefiles, flushed, lastRead, pollIdx, agg, last_agg,
                   worker_stats, interrupted, agg_stats, summary>>

\* mutate_program raises (int() of a token such as '--5'): the task fails.
WorkerRaise(w) ==
    /\ wpc[w] = "top"
    /\ ~LoopEnds(CaseId(w, case_iter[w], cfg.workers))
    /\ ~Truthy(cfg.cases) => CaseId(w, case_iter[w], cfg.workers) < MaxCases
    /\ wpc' = [wpc EXCEPT ![w] = "raised"]
    /\ UNCHANGED <<cfg, auxVars, iterVars,
                   phase, cpc, case_iter, stats, tmpfile, statsfile, tmpbin,
                   casefiles, ran, flushed, lastRead, pollIdx, agg, last_agg,
                   worker_stats, interrupted, agg_stats, summary>>

\* interesting = timed_out or crashed or exit_code in [2, 10, 11, 14] or save_all
InterestingNoTimeouts(r) ==
    \/ r.crashed
    \/ r.exit_code \in {2, 10, 11, 14}
    \/ cfg.save_all
Interesting(r) ==
    \/ r.timed_out
    \/ r.crashed
    \/ r.exit_code \in {2, 10, 11, 14}
    \/ cfg.save_all

Bump(b) == IF b THEN 1 ELSE 0

\* The "Update stats" block.
UpdateStatsNoHistogram(s, r) ==
    [total |-> s.total + 1,
     saved |-> s.saved,
     timeouts |-> s.timeouts + Bump(r.timed_out),
     crashed |-> s.crashed + Bump(r.crashed \/ r.exit_code \in {10, 11, 14}),
     exits |-> s.exits]
UpdateStatsAssign(s, r) ==
    [total |-> s.total + 1,
     saved |-> s.saved,
     timeouts |-> Bump(r.timed_out),
     crashed |-> s.crashed + Bump(r.crashed \/ r.exit_code \in {10, 11, 14}),
     exits |-> [s.exits EXCEPT ![r.exit_code] = @ + 1]]
UpdateStats(s, r) ==
    [total |-> s.total + 1,
     saved |-> s.saved,
     timeouts |-> s.timeouts + Bump(r.timed_out),
     crashed |-> s.crashed + Bump(r.crashed \/ r.exit_code \in {10, 11, 14}),
     exits |-> [s.exits EXCEPT ![r.exit_code] = @ + 1]]

\* The three files save_case writes for a case, in the order it writes them.
OpsTxt == "ops.txt"
InputBin == "input.bin"
MetaTxt == "meta.txt"
Artifacts == {OpsTxt, InputBin, MetaTxt}

\* run_fiskta returns and the stats are updated.  A result that is not
\* interesting: the temp input file is unlinked.  An interesting one: it is
\* minimized and save_case writes case_<id>.ops.txt, the first of its files.
WorkerFinishCase(w) ==
    LET id == CaseId(w, case_iter[w], cfg.workers) IN
    /\ wpc[w] = "run"
    /\ \E o \in RunOutcomes :
         LET r == RunFiskta(o) IN
         /\ stats' = [stats EXCEPT ![w] = UpdateStats(stats[w], r)]
         /\ IF Interesting(r)
            THEN /\ casefiles' = casefiles \cup {<<id, OpsTxt>>}
                 /\ wpc' = [wpc EXCEPT ![w] = "save_input"]
                 /\ UNCHANGED tmpbin
            ELSE /\ tmpbin' = tmpbin \ {<<w, id>>}
                 /\ wpc' = [wpc EXCEPT ![w] = "flush"]
                 /\ UNCHANGED casefiles
    /\ UNCHANGED <<cfg, auxVars, iterVars,
                   phase, cpc, case_iter, tmpfile, statsfile, ran, flushed,
                   lastRead, pollIdx, agg, last_agg, worker_stats, interrupted,
                   agg_stats, summary>>

\* save_case: base.with_suffix('.input.bin').write_bytes(input_data)
SaveInput(w) ==
    LET id == CaseId(w, case_iter[w], cfg.workers) IN
    /\ wpc[w] = "save_input"
    /\ casefiles' = casefiles \cup {<<id, InputBin>>}
    /\ wpc' = [wpc EXCEPT ![w] = "save_meta"]
    /\ UNCHANGED <<cfg, auxVars, iterVars,
                   phase, cpc, case_iter, stats, tmpfile, statsfile, tmpbin,
                   ran, flushed, lastRead, pollIdx, agg, last_agg,
                   worker_stats, interrupted, agg_stats, summary>>

\* stats['saved'] += 1
CountSavedTwice(s) == [s EXCEPT !.saved = @ + 2]
CountSaved(s) == [s EXCEPT !.saved = @ + 1]

\* save_case: base.with_suffix('.meta.txt').write_text(meta); then
\* stats['saved'] += 1 and tmp_path.unlink(missing_ok=True).
SaveMeta(w) ==
    LET id == CaseId(w, case_iter[w], cfg.workers) IN
    /\ wpc[w] = "save_meta"
    /\ casefiles' = casefiles \cup {<<id, MetaTxt>>}
    /\ stats' = [stats EXCEPT ![w] = CountSaved(stats[w])]
    /\ tmpbin' = tmpbin \ {<<w, id>>}
    /\ wpc' = [wpc EXCEPT ![w] = "flush"]
    /\ UNCHANGED <<cfg, auxVars, iterVars,
                   phase, cpc, case_iter, tmpfile, statsfile, ran, flushed,
                   lastRead, pollIdx, agg, last_agg, worker_stats, interrupted,
                   agg_stats, summary>>

\* write_worker_stats: temp_path.write_text(...) opens and truncates the file,
FlushOpenInPlace(w) ==
    /\ wpc[w] = "flush"
    /\ statsfile' = [statsfile EXCEPT ![w] = PartialFile]
    /\ wpc' = [wpc EXCEPT ![w] = "flush_write"]
    /\ UNCHANGED <<cfg, auxVars, iterVars,
                   phase, cpc, case_iter, stats, tmpfile, tmpbin, casefiles,
                   ran, flushed, lastRead, pollIdx, agg, last_agg, worker_stats,
                   interrupted, agg_stats, summary>>
FlushOpen(w) ==
    /\ wpc[w] = "flush"
    /\ tmpfile' = [tmpfile EXCEPT ![w] = PartialFile]
    /\ wpc' = [wpc EXCEPT ![w] = "flush_write"]
    /\ UNCHANGED <<cfg, auxVars, iterVars,
                   phase, cpc, case_iter, stats, statsfile, tmpbin, casefiles,
                   ran, flushed, lastRead, pollIdx, agg, last_agg, worker_stats,
                   interrupted, agg_stats, summary>>

\* then writes the whole text and closes it,
FlushWriteNoHistogram(w) ==
    /\ wpc[w] = "flush_write"
    /\ tmpfile' = [tmpfile EXCEPT ![w] = FullFile([stats[w] EXCEPT !.exits = ZeroExits])]
    /\ wpc' = [wpc EXCEPT ![w] = "flush_rename"]
    /\ UNCHANGED <<cfg, auxVars, iterVars,
                   phase, cpc, case_iter, stats, statsfile, tmpbin, casefiles,
                   ran, flushed, lastRead, pollIdx, agg, last_agg, worker_stats,
                   interrupted, agg_stats, summary>>
FlushWrite(w) ==
    /\ wpc[w] = "flush_write"
    /\ tmpfile' = [tmpfile EXCEPT ![w] = FullFile(stats[w])]
    /\ wpc' = [wpc EXCEPT ![w] = "flush_rename"]
    /\ UNCHANGED <<cfg, auxVars, iterVars,
                   phase, cpc, case_iter, stats, statsfile, tmpbin, casefiles,
                   ran, flushed, lastRead, pollIdx, agg, last_agg, worker_stats,
                   interrupted, agg_stats, summary>>

\* and temp_path.rename(stats_path) replaces the snapshot; case_iter += 1.
FlushRename(w) ==
    /\ wpc[w] = "flush_rename"
    /\ statsfile' = [statsfile EXCEPT ![w] = tmpfile[w]]
    /\ tmpfile' = [tmpfile EXCEPT ![w] = AbsentFile]
    /\ flushed' = [flushed EXCEPT ![w] = @ \cup {tmpfile[w].data}]
    /\ case_iter' = [case_iter EXCEPT ![w] = @ + 1]
    /\ wpc' = [wpc EXCEPT ![w] = "top"]
    /\ UNCHANGED <<cfg, auxVars, iterVars,
                   phase, cpc, stats, tmpbin, casefiles, ran, lastRead,
                   pollIdx, agg, last_agg, worker_stats, interrupted,
                   agg_stats, summary>>

WorkerAlive(w) ==
    wpc[w] \in {"top", "run", "save_input", "save_meta", "flush", "flush_write",
               "flush_rename"}

WorkerStep(w) ==
    \/ WorkerReturn(w)
    \/ WorkerStartCase(w)
    \/ WorkerRaise(w)
    \/ WorkerFinishCase(w)
    \/ SaveInput(w)
    \/ SaveMeta(w)
    \/ FlushOpen(w)
    \/ FlushWrite(w)
    \/ FlushRename(w)

(***************************************************************************)
(* run_fuzzer                                                              *)
(***************************************************************************)
\* pool = Pool(cfg.workers); result = pool.map_async(worker_fn, worker_args)
SpawnPool ==
    /\ cpc = "spawn"
    /\ phase' = "RUNNING"
    /\ cpc' = "poll"
    /\ wpc' = [w \in AllWorkers |-> IF w \in Workers THEN "top" ELSE "unborn"]
    /\ UNCHANGED <<cfg, auxVars, iterVars,
                   case_iter, stats, tmpfile, statsfile, tmpbin, casefiles,
                   ran, flushed, lastRead, pollIdx, agg, last_agg, worker_stats,
                   interrupted, agg_stats, summary>>

AllTasksDone == \A w \in Workers : wpc[w] \in {"returned", "raised"}

\* The polling loop's locals are dead once the loop is left.
LeavePolling ==
    /\ pollIdx' = 0
    /\ agg' = 0
    /\ last_agg' = 0
    /\ lastRead' = NoRead

\* worker_stats = result.get(timeout=1) returns every worker's stats.
PollReturns ==
    /\ cpc = "poll"
    /\ \A w \in Workers : wpc[w] = "returned"
    /\ worker_stats' = TRUE
    /\ phase' = "COMPLETED"
    /\ cpc' = "close"
    /\ LeavePolling
    /\ UNCHANGED <<cfg, auxVars, iterVars,
                   wpc, case_iter, stats, tmpfile, statsfile, tmpbin,
                   casefiles, ran, flushed, interrupted, agg_stats,
                   summary>>

\* result.get re-raises a task's exception once every task is done; it is no
\* KeyboardInterrupt, so it leaves run_fuzzer through the finally clause.
PollRaises ==
    /\ cpc = "poll"
    /\ AllTasksDone
    /\ \E w \in Workers : wpc[w] = "raised"
    /\ phase' = "ABORTED"
    /\ cpc' = "done"
    /\ LeavePolling
    /\ UNCHANGED <<cfg, auxVars, iterVars,
                   wpc, case_iter, stats, tmpfile, statsfile, tmpbin,
                   casefiles, ran, flushed, worker_stats, interrupted,
                   agg_stats, summary>>

\* except MPTimeoutError: agg = {'total': 0, ...}
PollTimeout ==
    /\ cpc = "poll"
    /\ ~AllTasksDone
    /\ cpc' = "read"
    /\ pollIdx' = 0
    /\ agg' = 0
    /\ UNCHANGED <<cfg, auxVars, iterVars,
                   phase, wpc, case_iter, stats, tmpfile, statsfile, tmpbin,
                   casefiles, ran, flushed, lastRead, last_agg, worker_stats,
                   interrupted, agg_stats, summary>>

\* What the parse of a snapshot text adds to agg['total']: a partial text
\* yields nothing (the bare except passes).
ParsedTotal(f) == IF f.st = "full" THEN f.data.total ELSE 0

\* One pass of "for i in range(cfg.workers)": exists() and read_text().
PollRead ==
    /\ cpc = "read"
    /\ pollIdx < cfg.workers
    /\ lastRead' = [w |-> pollIdx, file |-> statsfile[pollIdx],
                    during |-> wpc[pollIdx]]
    /\ agg' = agg + ParsedTotal(statsfile[pollIdx])
    /\ pollIdx' = pollIdx + 1
    /\ UNCHANGED <<cfg, auxVars, iterVars,
                   phase, cpc, wpc, case_iter, stats, tmpfile, statsfile,
                   tmpbin, casefiles, ran, flushed, last_agg, worker_stats,
                   interrupted, agg_stats, summary>>

\* if agg['total'] >= last_agg['total']: last_agg = agg  else: agg = last_agg
PollDisplayLatest ==
    /\ cpc = "read"
    /\ pollIdx = cfg.workers
    /\ last_agg' = agg
    /\ agg' = agg
    /\ lastRead' = NoRead
    /\ pollIdx' = 0
    /\ cpc' = "poll"
    /\ UNCHANGED <<cfg, auxVars, iterVars,
                   phase, wpc, case_iter, stats, tmpfile, statsfile, tmpbin,
                   casefiles, ran, flushed, worker_stats, interrupted, agg_stats,
                   summary>>
PollDisplay ==
    /\ cpc = "read"
    /\ pollIdx = cfg.workers
    /\ last_agg' = IF agg >= last_agg THEN agg ELSE last_agg
    /\ agg' = IF agg >= last_agg THEN agg ELSE last_agg
    /\ lastRead' = NoRead
    /\ pollIdx' = 0
    /\ cpc' = "poll"
    /\ UNCHANGED <<cfg, auxVars, iterVars,
                   phase, wpc, case_iter, stats, tmpfile, statsfile, tmpbin,
                   casefiles, ran, flushed, worker_stats, interrupted, agg_stats,
                   summary>>

\* pool.close(); pool.join()
ClosePool ==
    /\ cpc = "close"
    /\ cpc' = "aggregate"
    /\ UNCHANGED <<cfg, auxVars, iterVars,
                   phase, wpc, case_iter, stats, tmpfile, statsfile, tmpbin,
                   casefiles, ran, flushed, lastRead, pollIdx, agg, last_agg,
                   worker_stats, interrupted, agg_stats, summary>>

\* A process that is killed stops where it is.
KilledNobody(w) == wpc[w]
Killed(w) == IF WorkerAlive(w) THEN "killed" ELSE wpc[w]

\* except KeyboardInterrupt: interrupted = True; pool.terminate(); pool.join()
Interrupt ==
    /\ cpc \in {"spawn", "poll", "read", "close"}
    /\ interrupted' = TRUE
    /\ wpc' = [w \in AllWorkers |-> Killed(w)]
    /\ phase' = "INTERRUPTED"
    /\ cpc' = "aggregate"
    /\ LeavePolling
    /\ UNCHANGED <<cfg, auxVars, iterVars,
                   case_iter, stats, tmpfile, statsfile, tmpbin, casefiles,
                   ran, flushed, worker_stats, agg_stats, summary>>

\* An interrupt arrives inside the polling loop's "try: ... except: pass"
\* around read_text(): the bare except swallows it, the file's lines are not
\* summed and the loop goes on. A terminal sends SIGINT to the whole process
\* group, so the workers may die of it.
InterruptSwallowed ==
    /\ cpc = "read"
    /\ pollIdx < cfg.workers
    /\ statsfile[pollIdx].st # "absent"
    /\ \E group \in BOOLEAN :
         wpc' = IF group THEN [w \in AllWorkers |-> Killed(w)] ELSE wpc
    /\ pollIdx' = pollIdx + 1
    /\ UNCHANGED <<cfg, auxVars, iterVars,
                   phase, cpc, case_iter, stats, tmpfile, statsfile, tmpbin,
                   casefiles, ran, flushed, lastRead, agg, last_agg, worker_stats,
                   interrupted, agg_stats, summary>>

\* agg_stats.<counter> += stats[<counter>], and for each code
\* agg_stats.exits[code] = agg_stats.exits.get(code, 0) + count
AddOverwrites(a, b) ==
    [total |-> a.total + b.total, saved |-> a.saved + b.saved,
     timeouts |-> a.timeouts + b.timeouts, crashed |-> a.crashed + b.crashed,
     exits |-> [c \in Codes |-> IF b.exits[c] > 0 THEN b.exits[c] ELSE a.exits[c]]]
Add(a, b) ==
    [total |-> a.total + b.total, saved |-> a.saved + b.saved,
     timeouts |-> a.timeouts + b.timeouts, crashed |-> a.crashed + b.crashed,
     exits |-> [c \in Codes |-> a.exits[c] + b.exits[c]]]

RECURSIVE SumUpTo(_, _)
SumUpTo(f, n) == IF n = 0 THEN ZeroStats ELSE Add(SumUpTo(f, n - 1), f[n - 1])

\* write_worker_stats: the lines total=, saved=, timeouts=, crashed= and one
\* line exit[<code>]=<count> for each code that stats['exits'] holds.
RECURSIVE ExitLines(_, _)
ExitLines(exits, codes) ==
    IF codes = {} THEN <<>>
    ELSE LET c == CHOOSE x \in codes : TRUE
         IN <<[key |-> "exit", code |-> c, val |-> exits[c]]>>
                \o ExitLines(exits, codes \ {c})

StatsLines(s) ==
    <<[key |-> "total", code |-> 0, val |-> s.total],
      [key |-> "saved", code |-> 0, val |-> s.saved],
      [key |-> "timeouts", code |-> 0, val |-> s.timeouts],
      [key |-> "crashed", code |-> 0, val |-> s.crashed]>>
        \o ExitLines(s.exits, {c \in Codes : s.exits[c] > 0})

\* The parse of the "Interrupted" loop: key == 'total', ..., and
\* code = int(key[5:-1]) for a key that starts with 'exit['.
RECURSIVE ParseLines(_, _)
ParseLines(lines, acc) ==
    IF lines = <<>> THEN acc
    ELSE LET l == Head(lines) IN
         ParseLines(Tail(lines),
             IF l.key = "total" THEN [acc EXCEPT !.total = @ + l.val]
             ELSE IF l.key = "saved" THEN [acc EXCEPT !.saved = @ + l.val]
             ELSE IF l.key = "timeouts" THEN [acc EXCEPT !.timeouts = @ + l.val]
             ELSE IF l.key = "crashed" THEN [acc EXCEPT !.crashed = @ + l.val]
             ELSE [acc EXCEPT !.exits[l.code] = @ + l.val])

\* What the "Interrupted - read from worker stats files" loop takes from a file.
FileStats(f) ==
    IF f.st = "full" THEN ParseLines(StatsLines(f.data), ZeroStats) ELSE ZeroStats

\* "Aggregate stats from worker results or worker stats files"
Aggregate ==
    /\ cpc = "aggregate"
    /\ agg_stats' = IF worker_stats
                    THEN SumUpTo(stats, cfg.workers)
                    ELSE SumUpTo([w \in AllWorkers |-> FileStats(statsfile[w])],
                                 cfg.workers)
    /\ cpc' = "cleanup"
    /\ UNCHANGED <<cfg, auxVars, iterVars,
                   phase, wpc, case_iter, stats, tmpfile, statsfile, tmpbin,
                   casefiles, ran, flushed, lastRead, pollIdx, agg, last_agg,
                   worker_stats, interrupted, summary>>

\* "Clean up worker stats files": stats_path.unlink(missing_ok=True) for each i
CleanupSkipsFirst ==
    /\ cpc = "cleanup"
    /\ statsfile' = [w \in AllWorkers |->
                       IF w \in Workers \ {0} THEN AbsentFile ELSE statsfile[w]]
    /\ cpc' = "summary"
    /\ UNCHANGED <<cfg, auxVars, iterVars,
                   phase, wpc, case_iter, stats, tmpfile, tmpbin, casefiles,
                   ran, flushed, lastRead, pollIdx, agg, last_agg, worker_stats,
                   interrupted, agg_stats, summary>>
Cleanup ==
    /\ cpc = "cleanup"
    /\ statsfile' = [w \in AllWorkers |->
                       IF w \in Workers THEN AbsentFile ELSE statsfile[w]]
    /\ cpc' = "summary"
    /\ UNCHANGED <<cfg, auxVars, iterVars,
                   phase, wpc, case_iter, stats, tmpfile, tmpbin, casefiles,
                   ran, flushed, lastRead, pollIdx, agg, last_agg, worker_stats,
                   interrupted, agg_stats, summary>>

\* "Write run summary"
WriteSummary ==
    /\ cpc = "summary"
    /\ summary' = FullFile(agg_stats)
    /\ phase' = "SUMMARIZED"
    /\ cpc' = "done"
    /\ UNCHANGED <<cfg, auxVars, iterVars,
                   wpc, case_iter, stats, tmpfile, statsfile, tmpbin,
                   casefiles, ran, flushed, lastRead, pollIdx, agg, last_agg,
                   worker_stats, interrupted, agg_stats>>

CoordinatorFinish == ClosePool \/ Aggregate \/ Cleanup \/ WriteSummary

Next ==
    \/ \E w \in AllWorkers : WorkerStep(w)
    \/ SpawnPool
    \/ PollReturns
    \/ PollRaises
    \/ PollTimeout
    \/ PollRead
    \/ PollDisplay
    \/ Interrupt
    \/ InterruptSwallowed
    \/ CoordinatorFinish

Spec == Init /\ [][Next]_vars

\* run_fuzzer is sequential code: once past the polling loop it runs to its end.
FairSpec == Spec /\ WF_vars(CoordinatorFinish)

\* A run with --cases n, for every n from 0 on.
FixedConfigs ==
    {[DefaultConfig EXCEPT !.workers = w, !.cases = <<n>>, !.save_all = sa] :
        w \in 1 .. MaxWorkers, n \in 0 .. MaxCases, sa \in BOOLEAN}

FixedInit ==
    /\ cfg \in FixedConfigs
    /\ AuxIdle
    /\ RunInit
    /\ IterIdle

\* A worker is a process of its own, which the operating system keeps
\* running: a step of worker_fn that can be taken is taken, the target
\* returning among them.
FixedSpec ==
    FixedInit /\ [][Next]_vars /\ \A w \in AllWorkers : WF_vars(WorkerStep(w))

(***************************************************************************)
(* One iteration of worker_fn at token level: run_fiskta, minimize_tokens, *)
(* save_case, and repro_case on the saved case.                            *)
(***************************************************************************)

\* What the target can do with a program: exit with a code, die from a
\* signal, or run into the timeout.
CaseOutcomes ==
    {[kind |-> "exit", n |-> 0], [kind |-> "exit", n |-> 2],
     [kind |-> "exit", n |-> 12], [kind |-> "signal", n |-> 11],
     [kind |-> "signal", n |-> 6], [kind |-> "timeout", n |-> 0]}

CaseResults == {RunFiskta(o) : o \in CaseOutcomes}

\* Tokens are sequences of characters; LF, CR and SP name the line feed, the
\* carriage return and the space.  rand_string_token strips whitespace only
\* from the two ends of a token, and the garbage inserted by mutate_program
\* includes the empty token.
TokA == <<"a">>
TokInnerLF == <<"a", "LF", "b">>
TokEmpty == <<>>
CaseTokens == {TokA, TokInnerLF, TokEmpty}

CasePrograms == UNION {[1 .. n -> CaseTokens] : n \in 0 .. MaxTokens}

CaseInputs == {<<>>, <<0, 255>>}

CaseConfigs ==
    {[DefaultConfig EXCEPT !.minimize = m, !.save_all = sa] :
        m \in BOOLEAN, sa \in BOOLEAN}

CaseIterInit ==
    /\ cfg \in CaseConfigs
    /\ RunInit
    /\ ipc = "exec"
    /\ ops \in CasePrograms
    /\ input_data \in CaseInputs
    /\ oracle = <<>>
    /\ res = NoResult
    /\ best = <<>>
    /\ mi = 0
    /\ improved = FALSE
    /\ final_ops = <<>>
    /\ casefile = NoCase
    /\ repro_ops = <<>>
    /\ repro_res = NoResult
    /\ mode = "given"
    /\ nmut = 0
    /\ UnitIdle

CaseInit ==
    /\ CaseIterInit
    /\ AuxIdle

\* The same iteration on a target whose result for a program and input can
\* change from one execution to the next.
FlakyInit ==
    /\ CaseIterInit
    /\ target = "flaky"
    /\ judge = NoJudge

\* The deterministic target: a program and input it has answered before get
\* the same answer again, any other gets some answer.  The flaky target
\* gives some answer each time.
Answers(p, inp) ==
    IF target = "deterministic" /\ <<p, inp>> \in DOMAIN oracle
    THEN {oracle[<<p, inp>>]}
    ELSE CaseResults

\* An answer binds the deterministic target only.
Remember(p, inp, r) ==
    IF target = "deterministic" THEN (<<p, inp>> :> r) @@ oracle ELSE oracle

same_failure(a, b) ==
    IF a.timed_out /\ b.timed_out THEN TRUE
    ELSE IF a.crashed /\ b.crashed THEN TRUE
    ELSE a.exit_code = b.exit_code

\* best[:i] + best[i+1:]
RemoveAtRotated(seq, i) ==
    [k \in 1 .. (Len(seq) - 1) |->
        IF k <= Len(seq) - 1 - i THEN seq[i + 1 + k] ELSE seq[k - (Len(seq) - 1 - i)]]
RemoveAt(seq, i) ==
    [k \in 1 .. (Len(seq) - 1) |-> IF k <= i THEN seq[k] ELSE seq[k + 1]]

\* '\n'.join(ops_tokens)
RECURSIVE JoinLines(_)
JoinLines(toks) ==
    IF toks = <<>> THEN <<>>
    ELSE IF Len(toks) = 1 THEN toks[1]
    ELSE toks[1] \o <<"LF">> \o JoinLines(Tail(toks))

\* Path.read_text opens the file in text mode: CR LF and a lone CR are read
\* as LF.
RECURSIVE ReadText(_)
ReadText(text) ==
    IF text = <<>> THEN <<>>
    ELSE IF Head(text) = "CR"
    THEN IF Len(text) > 1 /\ text[2] = "LF"
         THEN <<"LF">> \o ReadText(Tail(Tail(text)))
         ELSE <<"LF">> \o ReadText(Tail(text))
    ELSE <<Head(text)>> \o ReadText(Tail(text))

Whitespace == {"SP", "TAB", "LF", "CR", "VT", "FF"}

RECURSIVE LStrip(_)
LStrip(text) ==
    IF text # <<>> /\ Head(text) \in Whitespace THEN LStrip(Tail(text)) ELSE text

RECURSIVE RStrip(_)
RStrip(text) ==
    IF text # <<>> /\ text[Len(text)] \in Whitespace
    THEN RStrip(SubSeq(text, 1, Len(text) - 1))
    ELSE text

\* str.strip()
Strip(text) == RStrip(LStrip(text))

\* str.split('\n'): cur is the piece being read, done the pieces before it.
RECURSIVE SplitFrom(_, _, _)
SplitFrom(text, cur, done) ==
    IF text = <<>> THEN Append(done, cur)
    ELSE IF Head(text) = "LF" THEN SplitFrom(Tail(text), <<>>, Append(done, cur))
    ELSE SplitFrom(Tail(text), Append(cur, Head(text)), done)

SplitLines(text) == SplitFrom(text, <<>>, <<>>)

\* What repro_case reads back from the ops file that save_case writes for p.
ReadBack(p) == SplitLines(Strip(ReadText(JoinLines(p))))

\* The programs that can still be run once minimize_tokens holds b as best:
\* its trials are b with tokens removed, and repro_case runs what it reads
\* back.  The answers to all other programs are dropped from oracle, which
\* changes nothing the iteration can observe.
RECURSIVE Subsequences(_)
Subsequences(seq) ==
    IF seq = <<>> THEN {<<>>}
    ELSE LET rest == Subsequences(Tail(seq)) IN
         rest \cup {<<Head(seq)>> \o q : q \in rest}

StillRunnable(b) ==
    Subsequences(b) \cup {ReadBack(q) : q \in Subsequences(b)}

Restrict(f, b) ==
    [k \in {x \in DOMAIN f : x[1] \in StillRunnable(b)} |-> f[k]]

\* if cfg.minimize and res.exit_code != 12
ShouldMinimizeAnyCode(r) == cfg.minimize
ShouldMinimize(r) == cfg.minimize /\ r.exit_code # 12

\* res = run_fiskta(ops, ...); an interesting result is minimized unless
\* minimization is off or the exit code is 12, and goes on to save_case.
RunCase ==
    /\ ipc = "exec"
    /\ \E r \in Answers(ops, input_data) :
         /\ res' = r
         /\ oracle' = Remember(ops, input_data, r)
         /\ IF ~Interesting(r)
            THEN ipc' = "done" /\ UNCHANGED <<best, final_ops>>
            ELSE IF ShouldMinimize(r)
            THEN ipc' = "min" /\ best' = ops /\ UNCHANGED final_ops
            ELSE ipc' = "save" /\ final_ops' = ops /\ UNCHANGED best
    /\ UNCHANGED <<cfg, auxVars, runVars, genVars, unitVars,
                   ops, input_data, mi, improved, casefile,
                   repro_ops, repro_res>>

\* One turn of the inner loop of minimize_tokens: token i is removed and the
\* trial is run; it becomes best when it fails as want_res does.
MinTrialKeepsAll ==
    /\ ipc = "min"
    /\ mi < Len(best)
    /\ Len(best) > 1
    /\ LET trial == RemoveAt(best, mi) IN
       \E r \in Answers(trial, input_data) :
         /\ best' = trial /\ improved' = TRUE /\ mi' = 0
         /\ oracle' = Restrict(Remember(trial, input_data, r), trial)
    /\ UNCHANGED <<cfg, auxVars, runVars, genVars, unitVars,
                   ipc, ops, input_data, res, final_ops, casefile,
                   repro_ops, repro_res>>
MinTrialKeepsLength ==
    /\ ipc = "min"
    /\ mi < Len(best)
    /\ Len(best) > 1
    /\ LET trial == RemoveAt(best, mi) IN
       \E r \in Answers(trial, input_data) :
         /\ IF same_failure(res, r)
            THEN /\ improved' = TRUE /\ mi' = 0 /\ UNCHANGED best
                 /\ oracle' = Remember(trial, input_data, r)
            ELSE /\ mi' = mi + 1 /\ UNCHANGED <<best, improved>>
                 /\ oracle' = Remember(trial, input_data, r)
    /\ UNCHANGED <<cfg, auxVars, runVars, genVars, unitVars,
                   ipc, ops, input_data, res, final_ops, casefile,
                   repro_ops, repro_res>>
MinTrial ==
    /\ ipc = "min"
    /\ mi < Len(best)
    /\ Len(best) > 1
    /\ LET trial == RemoveAt(best, mi) IN
       \E r \in Answers(trial, input_data) :
         /\ IF same_failure(res, r)
            THEN /\ best' = trial /\ improved' = TRUE /\ mi' = 0
                 /\ oracle' = Restrict(Remember(trial, input_data, r), trial)
            ELSE /\ mi' = mi + 1 /\ UNCHANGED <<best, improved>>
                 /\ oracle' = Remember(trial, input_data, r)
    /\ UNCHANGED <<cfg, auxVars, runVars, genVars, unitVars,
                   ipc, ops, input_data, res, final_ops, casefile,
                   repro_ops, repro_res>>

\* The inner loop is left: another pass when a token was removed in this one,
\* else minimize_tokens returns best, which becomes final_ops.
MinPassEndOnePass ==
    /\ ipc = "min"
    /\ mi >= Len(best) \/ Len(best) <= 1
    /\ mi' = 0
    /\ improved' = FALSE
    /\ ipc' = "save"
    /\ final_ops' = best
    /\ UNCHANGED <<cfg, auxVars, runVars, genVars, unitVars,
                   ops, input_data, oracle, res, best, casefile,
                   repro_ops, repro_res>>
MinPassEnd ==
    /\ ipc = "min"
    /\ mi >= Len(best) \/ Len(best) <= 1
    /\ mi' = 0
    /\ improved' = FALSE
    /\ IF improved
       THEN UNCHANGED <<ipc, final_ops>>
       ELSE ipc' = "save" /\ final_ops' = best
    /\ UNCHANGED <<cfg, auxVars, runVars, genVars, unitVars,
                   ops, input_data, oracle, res, best, casefile,
                   repro_ops, repro_res>>

\* save_case(case_id, final_ops, input_data, res, cfg.run_dir)
SaveCase ==
    /\ ipc = "save"
    /\ casefile' = [st |-> "saved", ops_txt |-> JoinLines(final_ops),
                    input_bin |-> input_data, meta |-> Meta(res)]
    /\ ipc' = "saved"
    /\ UNCHANGED <<cfg, auxVars, runVars, genVars, unitVars,
                   ops, input_data, oracle, res, best, mi,
                   improved,
                   final_ops, repro_ops, repro_res>>

\* repro_case: the program is read back from the ops file and run on the
\* saved input.
ReproCase ==
    /\ ipc = "saved"
    /\ LET read == SplitLines(Strip(ReadText(casefile.ops_txt))) IN
       /\ repro_ops' = read
       /\ \E r \in Answers(read, casefile.input_bin) :
            /\ repro_res' = r
            /\ oracle' = Remember(read, casefile.input_bin, r)
    /\ ipc' = "reproduced"
    /\ UNCHANGED <<cfg, auxVars, runVars, genVars, unitVars,
                   ops, input_data, res, best, mi, improved,
                   final_ops, casefile>>

CaseNext ==
    \/ RunCase
    \/ MinTrial
    \/ MinPassEnd
    \/ SaveCase
    \/ ReproCase

CaseSpec == CaseInit /\ [][CaseNext]_vars

\* minimize_tokens is sequential code and run_fiskta returns after timeout_ms
\* at the latest: a turn of its loops that can be taken is taken.
FlakySpec ==
    FlakyInit /\ [][CaseNext]_vars /\ WF_vars(MinTrial) /\ WF_vars(MinPassEnd)

(***************************************************************************)
(* Building the program of an iteration: gen_random_program,               *)
(* mutate_program and mutate_for_input_mismatch.  Tokens are sequences of  *)
(* characters, so that the tests and conversions the mutators make on a    *)
(* token are made on its characters.                                       *)
(***************************************************************************)

\* c * n
Rep(c, n) == [i \in 1 .. n |-> c]

\* The words of the target's language.
kw_find == <<"f", "i", "n", "d">>
kw_find_re == <<"f", "i", "n", "d", ":", "r", "e">>
kw_find_bin == <<"f", "i", "n", "d", ":", "b", "i", "n">>
kw_skip == <<"s", "k", "i", "p">>
kw_take == <<"t", "a", "k", "e">>
kw_label == <<"l", "a", "b", "e", "l">>
kw_view == <<"v", "i", "e", "w">>
kw_clear == <<"c", "l", "e", "a", "r">>
kw_print == <<"p", "r", "i", "n", "t">>
kw_fail == <<"f", "a", "i", "l">>
kw_to == <<"t", "o">>
kw_until == <<"u", "n", "t", "i", "l">>
kw_until_re == <<"u", "n", "t", "i", "l", ":", "r", "e">>
kw_until_bin == <<"u", "n", "t", "i", "l", ":", "b", "i", "n">>
kw_at == <<"a", "t">>
kw_THEN == <<"T", "H", "E", "N">>
kw_OR == <<"O", "R">>
kw_AND == <<"A", "N", "D">>

\* mutate_program, type 7: keywords
keywords ==
    {kw_find, kw_find_re, kw_find_bin, kw_skip, kw_take, kw_label, kw_view,
     kw_clear, kw_print, kw_fail, kw_to, kw_until, kw_until_re, kw_until_bin,
     kw_at, kw_THEN, kw_OR, kw_AND}

\* gen_random_program: the clause links
links == {kw_THEN, kw_OR, kw_AND}

\* mutate_program, type 1
extreme_sizes ==
    {<<"0", "b">>, <<"0", "c">>, <<"0", "l">>,
     Rep("9", 9) \o <<"b">>,
     Rep("9", 9) \o <<"c">>,
     Rep("9", 9) \o <<"l">>,
     <<"-", "1", "b">>, <<"-", "1", "c">>, <<"-", "1", "l">>}

\* mutate_program, type 2
extreme_offsets ==
    {<<"B", "O", "F", "+">> \o Rep("9", 9) \o <<"b">>,
     <<"E", "O", "F", "-">> \o Rep("9", 9) \o <<"b">>,
     <<"B", "O", "F", "+">> \o Rep("9", 9) \o <<"c">>,
     <<"E", "O", "F", "-">> \o Rep("9", 9) \o <<"c">>,
     <<"B", "O", "F", "+">> \o Rep("9", 9) \o <<"l">>,
     <<"E", "O", "F", "-">> \o Rep("9", 9) \o <<"l">>,
     <<"c", "u", "r", "s", "o", "r", "+">> \o Rep("9", 9) \o <<"b">>,
     <<"c", "u", "r", "s", "o", "r", "-">> \o Rep("9", 9) \o <<"b">>,
     <<"m", "a", "t", "c", "h", "-", "s", "t", "a", "r", "t", "+">>
         \o Rep("9", 9) \o <<"b">>,
     <<"m", "a", "t", "c", "h", "-", "e", "n", "d", "-">> \o Rep("9", 9) \o <<"b">>}

\* mutate_program, type 8
garbage ==
    {<<>>, <<"SP">>, <<"SP", "SP">>, <<"TAB">>, <<"LF">>,
     Rep("9", 21),
     <<"-">> \o Rep("9", 21),
     <<"0", "x">>, <<":", ":", ":">>, <<".", ".", ".">>, <<"-", "-", "-">>,
     <<"+", "+", "+">>, <<"/", "/", "/", "/">>, <<"[", "[", "[", "[">>,
     <<"]", "]", "]", "]">>, <<"{", "{", "{", "{">>, <<"}", "}", "}", "}">>,
     <<"_", "_", "_", "_">>, <<"I", "N", "V", "A", "L", "I", "D">>}

\* mutate_program, type 10
invalid_hex ==
    {<<"G">>, <<"Z", "Z">>, <<"0", "G">>, <<"1", "H">>, <<"X", "Y">>,
     <<"SP", "SP">>, <<"0">>, <<"0", "0", "0">>, <<"F", "F", "F", "F", "F">>}

\* mutate_for_input_mismatch, type 2
patterns ==
    {<<".", "{", "5", "0", ",", "1", "0", "0", "}">>,
     <<"a", "{", "4", "0", ",", "8", "0", "}">>,
     <<"(", ".", ".", ")", "{", "3", "0", ",", "5", "0", "}">>,
     <<"\\", "w", "{", "7", "0", ",", "9", "9", "}">>,
     <<"(", ".", "|", "LF", ")", "{", "8", "0", ",", "1", "0", "0", "}">>}

\* gen_random_regex: one of the patterns it can return.
RegexSamples == {<<"a", "*">>}

\* gen_random_op: one operation of each shape that the mutators tell apart.
\* rand_string_token draws its characters from a pool that holds the
\* letters, the digits and '-', so "--5" and "find" are among its tokens.
GenOpSamples ==
    {<<kw_find, <<"-", "-", "5">>>>,
     <<kw_find_re, <<"a", "*">>>>,
     <<kw_skip, <<"5", "b">>>>,
     <<kw_take, kw_to, <<"B", "O", "F">>>>,
     <<kw_print, kw_find>>,
     <<kw_label, kw_OR>>}

\* gen_input: one input.
GenInputs == {<<0, 255>>}

\* Positions are counted from 0, as in the source.
At(seq, i) == seq[i + 1]

Positions(seq) == 0 .. (Len(seq) - 1)

\* seq[i] = x
ReplaceAt(seq, i, x) == [seq EXCEPT ![i + 1] = x]

\* seq[pos:pos] = xs, and seq.insert(pos, x) for xs = [x]
InsertSeq(seq, pos, xs) ==
    SubSeq(seq, 1, pos) \o xs \o SubSeq(seq, pos + 1, Len(seq))

\* seq[pos], seq[pos+1] = seq[pos+1], seq[pos]
SwapAt(seq, pos) ==
    [seq EXCEPT ![pos + 1] = seq[pos + 2], ![pos + 2] = seq[pos + 1]]

Min(a, b) == IF a <= b THEN a ELSE b

DigitChars == <<"0", "1", "2", "3", "4", "5", "6", "7", "8", "9">>

DigitVal(c) == CHOOSE v \in 0 .. 9 : DigitChars[v + 1] = c

\* str.isdigit(): the string is not empty and holds digits only.
IsDigit(str) ==
    /\ str # <<>>
    /\ \A k \in 1 .. Len(str) : \E v \in 1 .. 10 : DigitChars[v] = str[k]

\* str.lstrip('-')
RECURSIVE LStripDash(_)
LStripDash(str) ==
    IF str # <<>> /\ Head(str) = "-" THEN LStripDash(Tail(str)) ELSE str

\* token[:-1]
ButLast(str) == SubSeq(str, 1, Len(str) - 1)

\* str.startswith(prefix)
StartsWith(str, prefix) ==
    /\ Len(str) >= Len(prefix)
    /\ SubSeq(str, 1, Len(prefix)) = prefix

\* token and token[-1] in 'blc' and token[:-1].lstrip('-').isdigit()
IsSize(token) ==
    /\ token # <<>>
    /\ token[Len(token)] \in {"b", "l", "c"}
    /\ IsDigit(LStripDash(ButLast(token)))

\* token in ['BOF', 'EOF', 'cursor'] or token.startswith(('match-', 'line-'))
IsLocation(token) ==
    \/ token \in {<<"B", "O", "F">>, <<"E", "O", "F">>,
                  <<"c", "u", "r", "s", "o", "r">>}
    \/ StartsWith(token, <<"m", "a", "t", "c", "h", "-">>)
    \/ StartsWith(token, <<"l", "i", "n", "e", "-">>)

\* token and token.lstrip('-').isdigit()
LooksLikeNumber(token) == token # <<>> /\ IsDigit(LStripDash(token))

\* int(token) for a token of dashes followed by digits: the digits may have
\* one sign in front of them; with more than one, int raises ValueError.
IntParses(token) ==
    \/ IsDigit(token)
    \/ Head(token) = "-" /\ IsDigit(Tail(token))

\* The decimal digits of a number without leading zeros.
RECURSIVE Normal(_)
Normal(digits) ==
    IF Len(digits) > 1 /\ Head(digits) = "0" THEN Normal(Tail(digits)) ELSE digits

\* The digits of m + 1 and, for m > 0, of m - 1.
RECURSIVE Succ(_)
Succ(digits) ==
    IF digits = <<>> THEN <<"1">>
    ELSE IF digits[Len(digits)] = "9" THEN Succ(ButLast(digits)) \o <<"0">>
    ELSE ButLast(digits) \o <<DigitChars[DigitVal(digits[Len(digits)]) + 2]>>

RECURSIVE Pred(_)
Pred(digits) ==
    IF digits[Len(digits)] = "0" THEN Pred(ButLast(digits)) \o <<"9">>
    ELSE ButLast(digits) \o <<DigitChars[DigitVal(digits[Len(digits)])]>>

\* str(int(token) + d) for d in {-1, 1} and a token that int can parse.
StrOfIntPlus(token, d) ==
    LET neg == Head(token) = "-"
        mag == Normal(IF neg THEN Tail(token) ELSE token)
        zero == mag = <<"0">>
        up == (d = 1 /\ (~neg \/ zero)) \/ (d = -1 /\ neg /\ ~zero)
    IN  IF up
        THEN (IF neg /\ ~zero THEN <<"-">> ELSE <<>>) \o Succ(mag)
        ELSE IF zero THEN <<"-", "1">>
        ELSE LET less == Normal(Pred(mag)) IN
             IF neg /\ less # <<"0">> THEN <<"-">> \o less ELSE less

\* mutate_program: what one mutation of each type can make of the program m.
\* A type that walks the tokens and flips a coin at each candidate changes
\* any one candidate or none.
MutationType1(m) ==
    {m} \cup {ReplaceAt(m, i, x) : i \in {j \in Positions(m) : IsSize(At(m, j))},
                                  x \in extreme_sizes}

MutationType2(m) ==
    {m} \cup {ReplaceAt(m, i, x) : i \in {j \in Positions(m) : IsLocation(At(m, j))},
                                  x \in extreme_offsets}

MutationType3(m) ==
    IF Len(m) > 2
    THEN {m} \cup {ReplaceAt(m, i, x) :
                      i \in {j \in 1 .. (Len(m) - 1) : At(m, j - 1) = kw_find_re},
                      x \in RegexSamples}
    ELSE {m}

MutationType4(m) ==
    IF Len(m) > 1 THEN {RemoveAt(m, i) : i \in Positions(m)} ELSE {m}

MutationType5(m) ==
    IF Len(m) > 1
    THEN {InsertSeq(m, pos, <<At(m, pos)>>) : pos \in Positions(m)}
    ELSE {m}

MutationType6(m) ==
    IF Len(m) > 2 THEN {SwapAt(m, pos) : pos \in 0 .. (Len(m) - 2)} ELSE {m}

MutationType7(m) ==
    IF m # <<>>
    THEN {InsertSeq(m, pos, <<k>>) : pos \in 0 .. Len(m), k \in keywords}
    ELSE {m}

MutationType8(m) ==
    IF m # <<>>
    THEN {ReplaceAt(m, i, g) : i \in Positions(m), g \in garbage}
    ELSE {m}

\* num_part[1:] + unit if num_part.startswith('-') else '-' + num_part + unit
Negated(token) ==
    IF Head(token) = "-" THEN Tail(token) ELSE <<"-">> \o token

MutationType9(m) ==
    {m} \cup {ReplaceAt(m, i, Negated(At(m, i))) :
                 i \in {j \in Positions(m) : IsSize(At(m, j))}}

MutationType10(m) ==
    IF Len(m) > 1
    THEN {m} \cup {ReplaceAt(m, i, x) :
                      i \in {j \in 1 .. (Len(m) - 1) :
                                At(m, j - 1) \in {kw_find_bin, kw_until_bin}},
                      x \in invalid_hex}
    ELSE {m}

\* Type 11 calls int on the first token that looks like a number and wins
\* the coin: the tokens where int returns, and those where it raises.
MutationType11(m) ==
    {m} \cup {ReplaceAt(m, i, StrOfIntPlus(At(m, i), d)) :
                 i \in {j \in Positions(m) :
                           LooksLikeNumber(At(m, j)) /\ IntParses(At(m, j))},
                 d \in {-1, 1}}

MutationType11Raises(m) ==
    \E i \in Positions(m) : LooksLikeNumber(At(m, i)) /\ ~IntParses(At(m, i))

MutationType12(m) ==
    {m} \cup {RemoveAt(m, i) : i \in {j \in Positions(m) : At(m, j) \in links}}

MutationType13(m) ==
    IF Len(m) > 2
    THEN {InsertSeq(m, insert_pos,
                    SubSeq(m, start + 1, start + Min(count, Len(m) - start))) :
             start \in 0 .. (Len(m) - 2), count \in 2 .. 3,
             insert_pos \in 0 .. Len(m)}
    ELSE {m}

Mutations(mutation_type, m) ==
    CASE mutation_type = 1 -> MutationType1(m)
      [] mutation_type = 2 -> MutationType2(m)
      [] mutation_type = 3 -> MutationType3(m)
      [] mutation_type = 4 -> MutationType4(m)
      [] mutation_type = 5 -> MutationType5(m)
      [] mutation_type = 6 -> MutationType6(m)
      [] mutation_type = 7 -> MutationType7(m)
      [] mutation_type = 8 -> MutationType8(m)
      [] mutation_type = 9 -> MutationType9(m)
      [] mutation_type = 10 -> MutationType10(m)
      [] mutation_type = 11 -> MutationType11(m)
      [] mutation_type = 12 -> MutationType12(m)
      [] mutation_type = 13 -> MutationType13(m)

\* num_mutations = random.randint(0, 2)
MaxMutations == 2

\* num_ops = random.randint(min_ops, max_ops)
NumOpsOneLess(min_ops, max_ops) == {n - 1 : n \in (min_ops .. max_ops) \ {0}}
NumOps(min_ops, max_ops) == min_ops .. max_ops

\* The loop of gen_random_program for num_ops operations: each operation is
\* followed, but for the last, by a clause link or by none.
RECURSIVE ProgramsOf(_)
RECURSIVE ProgramsOfTrailingLink(_)
\* A link drawn after every operation, the last as well.
ProgramsOfTrailingLink(num_ops) ==
    IF num_ops <= 0 THEN {<<>>}
    ELSE {op \o link \o rest :
             op \in GenOpSamples,
             link \in {<<>>} \cup {<<k>> : k \in links},
             rest \in ProgramsOfTrailingLink(num_ops - 1)}
ProgramsOf(num_ops) ==
    IF num_ops <= 0 THEN {<<>>}
    ELSE IF num_ops = 1 THEN GenOpSamples
    ELSE {op \o link \o rest :
             op \in GenOpSamples,
             link \in {<<>>} \cup {<<k>> : k \in links},
             rest \in ProgramsOf(num_ops - 1)}

\* mutate_for_input_mismatch walks range(1, len(ops)) and changes the first
\* token that follows one of the words; -1 when there is none.
FirstAfter(m, words) ==
    LET found == {j \in 1 .. (Len(m) - 1) : At(m, j - 1) \in words} IN
    IF found = {} THEN -1 ELSE CHOOSE j \in found : \A k \in found : j <= k

\* 'A' * random.randint(5000, 50000) and '|'.join('a' ...) of 200 to 256
\* alternatives, cut short; b'x' * n, b'a' * n; f"label_{...}".
LongPattern == Rep("A", 5)
ManyAlternations == <<"a", "|", "a", "|", "a">>
ShortInputX == <<120>>
ShortInputA == <<97>>
fake_label == <<"l", "a", "b", "e", "l", "_", "1", "0", "0", "0">>

\* What mutate_for_input_mismatch returns for each mismatch_type, as pairs
\* of mutated_ops and mutated_input.
Mismatches(mismatch_type, m, inp) ==
    CASE mismatch_type = 1 ->
           LET i == FirstAfter(m, {kw_find, kw_find_re, kw_until, kw_until_re}) IN
           IF i = -1 THEN {<<m, inp>>}
           ELSE {<<ReplaceAt(m, i, LongPattern), ShortInputX>>}
      [] mismatch_type = 2 ->
           LET i == FirstAfter(m, {kw_find_re}) IN
           IF i = -1 THEN {<<m, inp>>}
           ELSE {<<ReplaceAt(m, i, x), ShortInputA>> : x \in patterns}
      [] mismatch_type = 3 ->
           LET i == FirstAfter(m, {kw_find_re}) IN
           IF i = -1 THEN {<<m, inp>>}
           ELSE {<<ReplaceAt(m, i, ManyAlternations), inp>>}
      [] mismatch_type = 4 ->
           {<<(<<kw_view, fake_label, fake_label>> \o m), inp>>}
      [] mismatch_type = 5 ->
           LET i == FirstAfter(m, {kw_find, kw_find_re, kw_find_bin, kw_skip,
                                   kw_take, kw_print, kw_fail}) IN
           IF i = -1 THEN {<<m, inp>>}
           ELSE {<<ReplaceAt(m, i, x), inp>> : x \in links}

\* The operations of gen_random_op and the number of argument tokens each
\* is generated with.
OpWords ==
    {kw_find, kw_find_re, kw_find_bin, kw_skip, kw_take, kw_label, kw_view,
     kw_clear, kw_print, kw_fail}

ArgCount(toks) ==
    IF Head(toks) = kw_view THEN 2
    ELSE IF /\ Head(toks) = kw_take
            /\ Len(toks) > 1
            /\ toks[2] \in {kw_until, kw_until_re, kw_until_bin, kw_to}
    THEN 2
    ELSE 1

\* The operation groups of a program: the operation words met when the
\* tokens are read from the left and each operation takes its arguments.
RECURSIVE OpGroups(_)
OpGroups(toks) ==
    IF toks = <<>> THEN 0
    ELSE IF Head(toks) \in OpWords
    THEN 1 + OpGroups(SubSeq(toks, 2 + ArgCount(toks), Len(toks)))
    ELSE OpGroups(Tail(toks))

\* What gen_random_program emitted, read back from the tokens: "op" for an
\* operation with its arguments, "link" for a clause link between operations.
RECURSIVE Shape(_)
Shape(toks) ==
    IF toks = <<>> THEN <<>>
    ELSE IF Head(toks) \in OpWords
    THEN <<"op">> \o Shape(SubSeq(toks, 2 + ArgCount(toks), Len(toks)))
    ELSE IF Head(toks) \in links
    THEN <<"link">> \o Shape(Tail(toks))
    ELSE <<"other">> \o Shape(Tail(toks))

Count(shape, what) == Cardinality({i \in DOMAIN shape : shape[i] = what})

\* Every link stands between two operations.
LinksBetweenOps(shape) ==
    \A i \in DOMAIN shape :
        shape[i] = "link" =>
            /\ 1 < i
            /\ i < Len(shape)
            /\ shape[i - 1] = "op"
            /\ shape[i + 1] = "op"

GenConfigs ==
    {[DefaultConfig EXCEPT !.min_ops = r[1], !.max_ops = r[2]] :
        r \in {q \in (-1 .. MaxOps) \X (-1 .. MaxOps) : q[1] <= q[2]}}

GenInit ==
    /\ cfg \in GenConfigs
    /\ AuxIdle
    /\ RunInit
    /\ ipc = "gen"
    /\ ops = <<>>
    /\ input_data = <<>>
    /\ oracle = <<>>
    /\ res = NoResult
    /\ best = <<>>
    /\ mi = 0
    /\ improved = FALSE
    /\ final_ops = <<>>
    /\ casefile = NoCase
    /\ repro_ops = <<>>
    /\ repro_res = NoResult
    /\ mode = "none"
    /\ nmut = 0
    /\ UnitIdle

caseVars == <<oracle, res, best, mi, improved, final_ops, casefile, repro_ops,
              repro_res>>

\* roll < RANDOM_GENERATION_PCT: the generated program is run as it is.
GenFresh ==
    /\ ipc = "gen"
    /\ \E num_ops \in NumOps(cfg.min_ops, cfg.max_ops) :
         ops' \in ProgramsOf(num_ops)
    /\ input_data' \in GenInputs
    /\ mode' = "fresh"
    /\ ipc' = "exec"
    /\ UNCHANGED <<cfg, auxVars, runVars, unitVars, caseVars, nmut>>

\* roll selects mutate_program(gen_random_program(...)): the program is
\* copied and num_mutations is drawn.
GenMutated ==
    /\ ipc = "gen"
    /\ \E num_ops \in NumOps(cfg.min_ops, cfg.max_ops) :
         /\ num_ops <= MaxMutOps
         /\ ops' \in ProgramsOf(num_ops)
    /\ input_data' \in GenInputs
    /\ mode' = "mutated"
    /\ nmut' \in 0 .. MaxMutations
    /\ ipc' = IF nmut' = 0 THEN "exec" ELSE "mutate"
    /\ UNCHANGED <<cfg, auxVars, runVars, unitVars, caseVars>>

\* One turn of the loop of mutate_program: the mutation is applied, or the
\* int of type 11 raises ValueError, which ends worker_fn.
Mutate ==
    /\ ipc = "mutate"
    /\ \E mutation_type \in 1 .. 13 :
         \/ /\ ops' \in Mutations(mutation_type, ops)
            /\ nmut' = nmut - 1
            /\ ipc' = IF nmut' = 0 THEN "exec" ELSE "mutate"
         \/ /\ mutation_type = 11
            /\ MutationType11Raises(ops)
            /\ ipc' = "raised"
            /\ nmut' = 0
            /\ UNCHANGED ops
    /\ UNCHANGED <<cfg, auxVars, runVars, unitVars, caseVars, input_data, mode>>

\* The remaining rolls: mutate_for_input_mismatch(gen_random_program(...)).
GenMismatch ==
    /\ ipc = "gen"
    /\ \E num_ops \in NumOps(cfg.min_ops, cfg.max_ops) :
         \E m \in ProgramsOf(num_ops), inp \in GenInputs, mismatch_type \in 1 .. 5 :
           \E out \in Mismatches(mismatch_type, m, inp) :
             /\ ops' = out[1]
             /\ input_data' = out[2]
    /\ mode' = "mismatch"
    /\ ipc' = "exec"
    /\ UNCHANGED <<cfg, auxVars, runVars, unitVars, caseVars, nmut>>

GenNext ==
    \/ GenFresh
    \/ GenMutated
    \/ Mutate
    \/ GenMismatch

GenSpec == GenInit /\ [][GenNext]_vars


(***************************************************************************)
(* HarnessSpec: one call of run_fiskta, for every way the child can end.   *)
(***************************************************************************)
HarnessOutcomes ==
    {[kind |-> "exit", n |-> n] : n \in 0..MaxExitCode}
      \cup {[kind |-> "signal", n |-> n] : n \in 1..MaxSignal}
      \cup {[kind |-> "timeout", n |-> 0]}

HarnessInit ==
    /\ cfg = DefaultConfig
    /\ AuxIdle
    /\ RunInit
    /\ IterIdle

RunTarget ==
    /\ child = NoChild
    /\ \E o \in HarnessOutcomes :
          /\ child' = o
          /\ res' = RunFiskta(o)
    /\ UNCHANGED <<cfg, auxVars, runVars, genVars, ipc, ops, input_data, oracle, best, mi,
                   improved, final_ops, casefile, repro_ops, repro_res,
                   data, corpus, prev, last, napplied, twin>>

HarnessNext == RunTarget

HarnessSpec == HarnessInit /\ [][HarnessNext]_vars

(***************************************************************************)
(* JudgeSpec: same_failure on the results of up to MaxJudged calls of      *)
(* run_fiskta, each compared with each.                                    *)
(***************************************************************************)
\* Ways the child can end: with code 0, with the codes 134 and 139, killed
\* by the signals 6 and 11, and by the timeout.
JudgeOutcomes ==
    {[kind |-> "exit", n |-> 0], [kind |-> "exit", n |-> 134],
     [kind |-> "exit", n |-> 139], [kind |-> "signal", n |-> 6],
     [kind |-> "signal", n |-> 11], [kind |-> "timeout", n |-> 0]}

JudgeInit ==
    /\ cfg = DefaultConfig
    /\ AuxIdle
    /\ RunInit
    /\ IterIdle

\* res = run_fiskta(...), then same_failure(a, b) for every two results a, b
\* held so far.
Judge ==
    /\ Len(judge.rs) < MaxJudged
    /\ \E o \in JudgeOutcomes :
         LET rs == Append(judge.rs, RunFiskta(o)) IN
         judge' = [rs |-> rs,
                   same |-> [p \in (DOMAIN rs) \X (DOMAIN rs) |->
                               same_failure(rs[p[1]], rs[p[2]])]]
    /\ UNCHANGED <<cfg, runVars, iterVars, target>>

JudgeNext == Judge

JudgeSpec == JudgeInit /\ [][JudgeNext]_vars

(***************************************************************************)
(* ByteSpec: one call of one byte mutator.  A mutator is the set of the    *)
(* results its random draws can produce; a draw from an empty range        *)
(* (randrange(0), randint(0, -1), choice([])) raises.                      *)
(***************************************************************************)
\* The values random.randrange(256) is drawn from in the model.
RandomBytes == {0, 255}

ByteInputs == UNION {[1 .. n -> RandomBytes] : n \in 0 .. MaxBytes}

CorpusEntries == {<<0>>, <<255, 255>>}

ByteCorpora == UNION {[1 .. n -> CorpusEntries] : n \in 0 .. MaxCorpus}

\* The result of a call that raised; no byte string holds -1.
Raised == <<-1>>

OrRaise(results) == IF results = {} THEN {Raised} ELSE results

\* seq[lo:hi]
Slice(seq, lo, hi) == SubSeq(seq, lo + 1, hi)

\* b ^ (1 << bit_pos)
FlipBit(b, bit_pos) ==
    IF (b \div (2 ^ bit_pos)) % 2 = 1 THEN b - 2 ^ bit_pos ELSE b + 2 ^ bit_pos

\* chunk * count
Times(chunk, count) ==
    [i \in 1 .. (Len(chunk) * count) |-> chunk[((i - 1) % Len(chunk)) + 1]]

mutate_bit_flip(d) ==
    IF d = <<>> THEN {d}
    ELSE OrRaise({ReplaceAt(d, pos, FlipBit(At(d, pos), bit_pos)) :
                     pos \in Positions(d), bit_pos \in 0 .. 7})

mutate_byte_flip(d) ==
    IF d = <<>> THEN {d}
    ELSE OrRaise({ReplaceAt(d, pos, v) : pos \in Positions(d), v \in RandomBytes})

mutate_byte_insert(d) ==
    OrRaise({InsertSeq(d, pos, <<v>>) : pos \in 0 .. Len(d), v \in RandomBytes})

\* A guard that only spares the empty string.
mutate_byte_deleteLastByte(d) ==
    IF d = <<>> THEN {d}
    ELSE OrRaise({Slice(d, 0, pos) \o Slice(d, pos + 1, Len(d)) : pos \in Positions(d)})

mutate_byte_delete(d) ==
    IF Len(d) <= 1 THEN {d}
    ELSE OrRaise({Slice(d, 0, pos) \o Slice(d, pos + 1, Len(d)) : pos \in Positions(d)})

\* The chunk is drawn byte by byte; the model draws the chunks of one value.
mutate_chunk_insert(d) ==
    OrRaise({InsertSeq(d, pos, Rep(v, chunk_size)) :
                pos \in 0 .. Len(d), v \in RandomBytes, chunk_size \in 1 .. 17})

mutate_chunk_delete(d) ==
    IF Len(d) <= 1 THEN {d}
    ELSE OrRaise(UNION {{Slice(d, 0, pos) \o Slice(d, pos + chunk_size, Len(d)) :
                            pos \in 0 .. (Len(d) - chunk_size)} :
                        chunk_size \in {Min(n, Len(d)) : n \in 1 .. 33}})

mutate_splice(d) ==
    IF corpus = <<>> \/ Len(corpus) < 2 THEN {d}
    ELSE OrRaise(UNION {{Slice(d, 0, split1) \o Slice(corpus[c], split2, Len(corpus[c])) :
                            split1 \in 0 .. Len(d), split2 \in 0 .. Len(corpus[c])} :
                        c \in DOMAIN corpus})

mutate_repeat(d) ==
    IF d = <<>> THEN {d}
    ELSE OrRaise(UNION {UNION {{InsertSeq(d, insert_pos,
                                          Times(Slice(d, pos, pos + chunk_size), count)) :
                                    insert_pos \in 0 .. Len(d), count \in 1 .. 5} :
                               pos \in 0 .. (Len(d) - chunk_size)} :
                        chunk_size \in {Min(n, Len(d)) : n \in 1 .. 17}})

ByteInit ==
    /\ cfg = DefaultConfig
    /\ AuxIdle
    /\ RunInit
    /\ ipc = "idle"
    /\ ops = <<>>
    /\ input_data = <<>>
    /\ oracle = <<>>
    /\ res = NoResult
    /\ best = <<>>
    /\ mi = 0
    /\ improved = FALSE
    /\ final_ops = <<>>
    /\ casefile = NoCase
    /\ repro_ops = <<>>
    /\ repro_res = NoResult
    /\ mode = "none"
    /\ nmut = 0
    /\ child = NoChild
    /\ data \in ByteInputs
    /\ corpus \in ByteCorpora
    /\ prev = <<>>
    /\ last = "none"
    /\ napplied = 0
    /\ twin = <<>>

\* data = mutator(data)
Apply(mutator, results) ==
    /\ \E r \in results : data' = r
    /\ prev' = data
    /\ last' = mutator
    /\ napplied' = napplied + 1
    /\ UNCHANGED <<cfg, auxVars, runVars, genVars, caseVars, ipc, ops, input_data, child, corpus,
                   twin>>

BitFlip == napplied = 0 /\ Apply("mutate_bit_flip", mutate_bit_flip(data))

ByteFlip == napplied = 0 /\ Apply("mutate_byte_flip", mutate_byte_flip(data))

ByteInsert == napplied = 0 /\ Apply("mutate_byte_insert", mutate_byte_insert(data))

ByteDelete == napplied = 0 /\ Apply("mutate_byte_delete", mutate_byte_delete(data))

ChunkInsert == napplied = 0 /\ Apply("mutate_chunk_insert", mutate_chunk_insert(data))

ChunkDelete == napplied = 0 /\ Apply("mutate_chunk_delete", mutate_chunk_delete(data))

Splice == napplied = 0 /\ Apply("mutate_splice", mutate_splice(data))

Repeat == napplied = 0 /\ Apply("mutate_repeat", mutate_repeat(data))

ByteNext ==
    \/ BitFlip
    \/ ByteFlip
    \/ ByteInsert
    \/ ByteDelete
    \/ ChunkInsert
    \/ ChunkDelete
    \/ Splice
    \/ Repeat

ByteSpec == ByteInit /\ [][ByteNext]_vars

(***************************************************************************)
(* SpliceSpec: mutate_splice applied in sequence, each output fed to the   *)
(* next call, over a corpus of a 100-byte and a 200-byte entry.            *)
(***************************************************************************)
SpliceCorpus == <<Rep(97, 100), Rep(98, 200)>>

SpliceInit ==
    /\ cfg = DefaultConfig
    /\ AuxIdle
    /\ RunInit
    /\ ipc = "idle"
    /\ ops = <<>>
    /\ input_data = <<>>
    /\ oracle = <<>>
    /\ res = NoResult
    /\ best = <<>>
    /\ mi = 0
    /\ improved = FALSE
    /\ final_ops = <<>>
    /\ casefile = NoCase
    /\ repro_ops = <<>>
    /\ repro_res = NoResult
    /\ mode = "none"
    /\ nmut = 0
    /\ child = NoChild
    /\ corpus = SpliceCorpus
    /\ \E c \in DOMAIN corpus : data = corpus[c]
    /\ prev = <<>>
    /\ last = "none"
    /\ napplied = 0
    /\ twin = <<>>

SpliceAgain == napplied < MaxSplices /\ Apply("mutate_splice", mutate_splice(data))

SpliceNext == SpliceAgain

SpliceSpec == SpliceInit /\ [][SpliceNext]_vars

(***************************************************************************)
(* TwinSpec: two runs of the fuzzer started with the same seed, the same   *)
(* configuration and no corpus.  In each run every worker is a process     *)
(* with a random module of its own; the target answers each run as it      *)
(* likes.  The generator of random is a small linear congruential one: a   *)
(* draw moves it to its next state and is read off that state.             *)
(***************************************************************************)
\* random.seed(s)
Seeded(s) == s % 16

Step(st) == (5 * st + 3) % 16

\* random.randint(lo, hi)
randint(st, lo, hi) ==
    LET x == Step(st) IN [v |-> lo + (x % (hi - lo + 1)), st |-> x]

\* random.random() < pct / 100
chance(st, pct) ==
    LET x == Step(st) IN [v |-> (x * 100) \div 16 < pct, st |-> x]

\* A set in the order of some list.
RECURSIVE SetToSeq(_)
SetToSeq(S) ==
    IF S = {} THEN <<>>
    ELSE LET e == CHOOSE x \in S : TRUE IN <<e>> \o SetToSeq(S \ {e})

\* random.choice(list)
choice(st, S) ==
    LET x == Step(st) IN [v |-> SetToSeq(S)[(x % Cardinality(S)) + 1], st |-> x]

\* The loop of gen_random_program from operation i on.
RECURSIVE DrawOps(_, _, _)
DrawOps(st, i, num_ops) ==
    IF i >= num_ops THEN [v |-> <<>>, st |-> st]
    ELSE LET op == choice(st, GenOpSamples)
             link == IF i < num_ops - 1
                     THEN LET c == chance(op.st, 25) IN
                          IF c.v
                          THEN LET roll == randint(c.st, 1, 10) IN
                               [v |-> IF roll.v <= 6 THEN <<kw_THEN>>
                                      ELSE IF roll.v <= 9 THEN <<kw_OR>>
                                      ELSE <<kw_AND>>,
                                st |-> roll.st]
                          ELSE [v |-> <<>>, st |-> c.st]
                     ELSE [v |-> <<>>, st |-> op.st]
             rest == DrawOps(link.st, i + 1, num_ops)
         IN [v |-> op.v \o link.v \o rest.v, st |-> rest.st]

\* gen_random_program(min_ops, max_ops)
DrawProgram(st, min_ops, max_ops) ==
    LET num_ops == randint(st, min_ops, max_ops) IN DrawOps(num_ops.st, 0, num_ops.v)

\* A program that stands for the ValueError of mutation type 11.
RaisedProgram == <<<<"ValueError">>>>

\* The loop of mutate_program with n mutations to go; what a mutation does
\* to the program is chosen among its results by one draw.
RECURSIVE DrawMutations(_, _, _)
DrawMutations(st, m, n) ==
    IF n = 0 \/ m = RaisedProgram THEN [v |-> m, st |-> st]
    ELSE LET mutation_type == randint(st, 1, 13)
             results == Mutations(mutation_type.v, m)
                          \cup IF mutation_type.v = 11 /\ MutationType11Raises(m)
                               THEN {RaisedProgram} ELSE {}
             r == choice(mutation_type.st, results)
         IN DrawMutations(r.st, r.v, n - 1)

\* mutate_program(ops)
DrawMutated(st, m) ==
    LET num_mutations == randint(st, 0, MaxMutations) IN
    DrawMutations(num_mutations.st, m, num_mutations.v)

\* The pieces gen_input_random appends to result: a byte by its value, the
\* i-th of ascii_lines by 1000 + i and the i-th of magics by 2000 + i.
ascii_line_len == <<14, 12, 12, 24, 26, 19, 36, 16, 14, 12, 12>>
magic_len == <<8, 3, 4>>

\* The loop of gen_input_random from the given length on.
RECURSIVE DrawPieces(_, _, _)
DrawPieces(st, length, total) ==
    IF length >= total THEN [v |-> <<>>, st |-> st]
    ELSE LET pick == randint(st, 0, 10) IN
         IF pick.v <= 5
         THEN LET l == randint(pick.st, 1, Len(ascii_line_len))
                  rest == DrawPieces(l.st, length + ascii_line_len[l.v], total)
              IN [v |-> <<1000 + l.v>> \o rest.v, st |-> rest.st]
         ELSE IF pick.v = 6 /\ length + 8 < total
         THEN LET g == randint(pick.st, 1, Len(magic_len))
                  rest == DrawPieces(g.st, length + magic_len[g.v], total)
              IN [v |-> <<2000 + g.v>> \o rest.v, st |-> rest.st]
         ELSE LET b == randint(pick.st, 0, 255)
                  rest == DrawPieces(b.st, length + 1, total)
              IN [v |-> <<b.v>> \o rest.v, st |-> rest.st]

\* gen_input(cfg.use_corpus) without a corpus: gen_input_random()
DrawInput(st) ==
    LET total == randint(st, 64, 4160) IN DrawPieces(total.st, 0, total.v)

\* One turn of the generation in worker_fn: roll, then one of the three
\* branches.  raised: mutate_program raised and nothing was generated.
DrawCase(st) ==
    LET roll == Step(st)
        pct == (roll * 100) \div 16
        p == DrawProgram(roll, cfg.min_ops, cfg.max_ops)
    IN IF pct < 40
       THEN LET inp == DrawInput(p.st) IN
            [ops |-> p.v, input |-> inp.v, st |-> inp.st, raised |-> FALSE]
       ELSE IF pct < 80
       THEN LET m == DrawMutated(p.st, p.v)
                inp == DrawInput(m.st)
            IN IF m.v = RaisedProgram
               THEN [ops |-> <<>>, input |-> <<>>, st |-> m.st, raised |-> TRUE]
               ELSE [ops |-> m.v, input |-> inp.v, st |-> inp.st, raised |-> FALSE]
       ELSE LET inp == DrawInput(p.st)
                mismatch_type == randint(inp.st, 1, 5)
                out == choice(mismatch_type.st, Mismatches(mismatch_type.v, p.v, inp.v))
            IN [ops |-> out.v[1], input |-> out.v[2], st |-> out.st, raised |-> FALSE]

\* minimize_tokens and save_case shuffle the generator.
AfterCaseDraws(st) == Step(st)

\* run_fiskta, minimize_tokens and save_case make no draw.
AfterCase(st) == st

TwinConfigs ==
    {[DefaultConfig EXCEPT !.seed = s, !.workers = w, !.minimize = mz,
                           !.min_ops = 1, !.max_ops = MaxOps] :
        s \in 0 .. MaxSeed, w \in 1 .. MaxWorkers, mz \in BOOLEAN}

Runs == 1 .. 2

TwinInit ==
    /\ cfg \in TwinConfigs
    /\ AuxIdle
    /\ RunInit
    /\ ipc = "idle"
    /\ ops = <<>>
    /\ input_data = <<>>
    /\ oracle = <<>>
    /\ res = NoResult
    /\ best = <<>>
    /\ mi = 0
    /\ improved = FALSE
    /\ final_ops = <<>>
    /\ casefile = NoCase
    /\ repro_ops = <<>>
    /\ repro_res = NoResult
    /\ mode = "none"
    /\ nmut = 0
    /\ child = NoChild
    /\ data = <<>>
    /\ corpus = <<>>
    /\ prev = <<>>
    /\ last = "none"
    /\ napplied = 0
    /\ twin = [run \in Runs |->
                 [w \in Workers |->
                    [st |-> Seeded(cfg.seed + w), pc |-> "top", out |-> <<>>,
                     res |-> NoResult]]]

TwinUnchanged ==
    UNCHANGED <<cfg, auxVars, runVars, genVars, caseVars, ipc, ops, input_data,
                child, data, corpus, prev, last, napplied>>

\* The generation part of an iteration of worker_fn.
TwinGenerate(run, w) ==
    LET me == twin[run][w]
        g == DrawCase(me.st)
    IN /\ me.pc = "top"
       /\ Len(me.out) < MaxIters
       /\ twin' = [twin EXCEPT ![run][w] =
                     IF g.raised
                     THEN [me EXCEPT !.pc = "raised", !.st = g.st]
                     ELSE [me EXCEPT !.pc = "run", !.st = g.st,
                                     !.out = Append(@, <<g.ops, g.input>>)]]
       /\ TwinUnchanged

\* res = run_fiskta(ops, ...) and the update of the counters.
TwinExecute(run, w) ==
    LET me == twin[run][w] IN
    /\ me.pc = "run"
    /\ \E o \in TargetOutcomes :
         LET r == RunFiskta(o) IN
         twin' = [twin EXCEPT ![run][w] =
                    [me EXCEPT !.res = r,
                               !.pc = IF Interesting(r) THEN "interesting" ELSE "top"]]
    /\ TwinUnchanged

\* An interesting case: minimize_tokens, unless it is off or the exit code
\* is 12, then save_case.
TwinSave(run, w) ==
    LET me == twin[run][w] IN
    /\ me.pc = "interesting"
    /\ twin' = [twin EXCEPT ![run][w] =
                  [me EXCEPT !.pc = "top",
                             !.st = IF ShouldMinimize(me.res)
                                    THEN AfterCase(me.st) ELSE me.st]]
    /\ TwinUnchanged

TwinNext ==
    \/ \E run \in Runs, w \in Workers : TwinGenerate(run, w)
    \/ \E run \in Runs, w \in Workers : TwinExecute(run, w)
    \/ \E run \in Runs, w \in Workers : TwinSave(run, w)

TwinSpec == TwinInit /\ [][TwinNext]_vars

(***************************************************************************)
(* Properties.  C1 to C4, C11, C22 to C25 and C27 to C29 are properties of *)
(* Spec, C10 of FairSpec, C16 of FixedSpec, C5 to C7, C12, C13, C20 and    *)
(* C30 of CaseSpec, C8, C9 and C18 of GenSpec, C14 of HarnessSpec, C15 of  *)
(* SpliceSpec, C19 of ByteSpec, C17 of TwinSpec, C21 of FlakySpec and C26  *)
(* of JudgeSpec.                                                           *)
(***************************************************************************)

\* C1: the case ids of the iterations executed in a run are pairwise
\* different: two (worker, iteration) pairs with the same id are the same
\* pair, so no case_<id> artifact or tmp_<w>_<id>.bin is written twice.
C1_CaseIdsUnique == \A p, q \in ran : p.id = q.id => p = q

C1_Witness ==
    /\ cfg.workers = 2
    /\ \E p, q \in ran : p.w # q.w
    /\ \A w \in Workers : wpc[w] = "returned"

\* C2: with a fixed case count N >= 1, once every worker has returned and the
\* summary is written, the ids executed are exactly 0..N-1, each by one
\* iteration, and run_summary.txt holds total=N.
C2_FixedCountExact ==
    (phase = "SUMMARIZED" /\ worker_stats /\ Truthy(cfg.cases)) =>
        /\ {p.id : p \in ran} = 0 .. (cfg.cases[1] - 1)
        /\ Cardinality(ran) = cfg.cases[1]
        /\ summary.st = "full"
        /\ summary.data.total = cfg.cases[1]

C2_Witness ==
    /\ phase = "SUMMARIZED"
    /\ worker_stats
    /\ ~interrupted
    /\ cfg.cases = <<1>>
    /\ cfg.workers = 2

\* C3: whatever the coordinator reads from worker_<i>_stats.txt is either no
\* file or the full text of a flush worker i has completed, never a partial
\* text.
C3_SnapshotReadsComplete ==
    \/ lastRead.file.st = "absent"
    \/ /\ lastRead.file.st = "full"
       /\ lastRead.file.data \in flushed[lastRead.w]

\* A read taken while the writer stood between writing the temp file and
\* renaming it: it returned the previous flush.
C3_Witness ==
    /\ lastRead.during = "flush_rename"
    /\ lastRead.file.st = "full"
    /\ lastRead.file.data.total = 1

StatsLeq(a, b) ==
    /\ a.total <= b.total
    /\ a.saved <= b.saved
    /\ a.timeouts <= b.timeouts
    /\ a.crashed <= b.crashed
    /\ \A c \in Codes : a.exits[c] <= b.exits[c]

\* C4: no step lowers a counter or a histogram entry of a worker's stats, and
\* a snapshot that replaces a snapshot holds counters at least as large.
C4_CountersMonotone ==
    [][\A w \in AllWorkers :
         /\ StatsLeq(stats[w], stats'[w])
         /\ (statsfile[w].st = "full" /\ statsfile'[w].st = "full")
                => StatsLeq(statsfile[w].data, statsfile'[w].data)]_vars

C4_Witness ==
    /\ stats[0].total = 2
    /\ stats[0].timeouts = 1
    /\ stats[0].exits[0] = 1
    /\ statsfile[0].st = "full"
    /\ statsfile[0].data.total = 2

\* C5: when minimize_tokens has returned, its program has no more tokens
\* than the one it was given, and the deterministic target, run on it with
\* the same input, can only give a result that is the same failure as the
\* original result.
C5_MinimizerKeepsFailure ==
    (ipc \in {"save", "saved", "reproduced"} /\ cfg.minimize /\ res.exit_code # 12) =>
        /\ Len(final_ops) <= Len(ops)
        /\ \A r \in Answers(final_ops, input_data) : same_failure(res, r)

\* The minimizer has removed tokens, and the shorter program dies from
\* another signal than the original did.
C5_Witness ==
    /\ ipc = "save"
    /\ cfg.minimize
    /\ Len(final_ops) < Len(ops)
    /\ res.signal_num = 11
    /\ <<final_ops, input_data>> \in DOMAIN oracle
    /\ oracle[<<final_ops, input_data>>].signal_num = 6

\* C6: running a persisted case again on the deterministic target yields the
\* exit code, signal and timed_out stored in its meta file.  It is stated
\* for the cases whose program is read back exactly as it was saved.
C6_ReproYieldsMeta ==
    (ipc = "reproduced" /\ repro_ops = final_ops) =>
        Meta(repro_res) = casefile.meta

\* C7: what repro_case reads from the ops file is the token sequence handed
\* to save_case, and the input file holds the bytes handed to save_case.
C7_CaseReadsBackIdentical ==
    ipc = "reproduced" =>
        /\ repro_ops = final_ops
        /\ casefile.input_bin = input_data

\* C8: mutate_program never raises, whatever program the generator or an
\* earlier mutation has produced.
C8_MutateNeverRaises == ipc # "raised"

\* C9 as stated: every program about to be passed to run_fiskta, however it
\* was built, has at least min_ops operation groups.
C9_HandedProgramsHaveMinOps ==
    ipc = "exec" => OpGroups(ops) >= cfg.min_ops

\* C9: every freshly generated program about to be passed to run_fiskta has
\* at least min_ops operation groups.
C9_FreshProgramsHaveMinOps ==
    (ipc = "exec" /\ mode = "fresh") => OpGroups(ops) >= cfg.min_ops

\* A fresh program of two operations with a clause link between them is
\* about to be run with min_ops = 2.
C9_Witness ==
    /\ ipc = "exec"
    /\ mode = "fresh"
    /\ cfg.min_ops = 2
    /\ OpGroups(ops) = 2
    /\ \E i \in Positions(ops) : At(ops, i) \in links

\* The part of C9 about mutate_for_input_mismatch: the programs it returns
\* have at least min_ops operation groups.
MismatchKeepsMinOps ==
    (ipc = "exec" /\ mode = "mismatch") => OpGroups(ops) >= cfg.min_ops

LastFlush(w) ==
    IF flushed[w] = {} THEN ZeroStats
    ELSE CHOOSE s \in flushed[w] : \A t \in flushed[w] : t.total <= s.total

Executed(w) == Cardinality({p \in ran : p.w = w})

\* C11: once the coordinator has been interrupted and reads the snapshots
\* for the summary, no worker is left that could write one, and the summary
\* of the interrupted run is the sum over the workers of their last
\* completed flush, whose total is the number of iterations the worker
\* executed or one less.
C11_InterruptKeepsFlushedStats ==
    /\ (interrupted /\ cpc \in {"aggregate", "cleanup", "summary", "done"}) =>
           \A w \in Workers : ~WorkerAlive(w)
    /\ (interrupted /\ phase = "SUMMARIZED") =>
           /\ summary.st = "full"
           /\ summary.data = SumUpTo([w \in AllWorkers |-> LastFlush(w)], cfg.workers)
           /\ \A w \in Workers :
                /\ LastFlush(w).total <= Executed(w)
                /\ Executed(w) <= LastFlush(w).total + 1

\* An interrupted run is summarized from the files: worker 0 was killed in
\* its second iteration, after the flush of the first.
C11_Witness ==
    /\ phase = "SUMMARIZED"
    /\ interrupted
    /\ ~worker_stats
    /\ wpc[0] = "killed"
    /\ LastFlush(0).total = 1
    /\ Executed(0) = 2
    /\ summary.data.total >= 1

\* C12: the worker is never inside minimize_tokens for an iteration whose
\* result has exit code 12, whatever the minimize and save_all settings; a
\* saved case with exit code 12 holds the program as it was run.
C12_ParseErrorsNotMinimized ==
    /\ ipc = "min" => res.exit_code # 12
    /\ (casefile.st = "saved" /\ res.exit_code = 12) => final_ops = ops

\* A parse error is saved under --save-all with minimization on.
C12_Witness ==
    /\ ipc = "saved"
    /\ res.exit_code = 12
    /\ cfg.minimize
    /\ cfg.save_all
    /\ Len(ops) > 1

\* The iteration has gone past the decision to save: its program is handed
\* to save_case or has been saved.
PastDecision == ipc \in {"save", "saved", "reproduced"}

\* C13 as stated: every signal-terminated iteration is saved as the program
\* that minimize_tokens returned (best is set by minimize_tokens only).
C13_CrashesAlwaysMinimized ==
    (res.crashed /\ PastDecision) => final_ops = best

\* C13: an iteration whose result is signal-terminated or timed out is never
\* discarded: it is in the minimizer, handed to save_case or saved; with
\* minimization on, the signal-terminated one is saved as the program that
\* minimize_tokens returned; and what is handed to save_case is saved with
\* the program and the result of the iteration.
C13_CrashesSavedAndMinimized ==
    /\ (res.crashed \/ res.timed_out) => (ipc = "min" \/ PastDecision)
    /\ (res.crashed /\ cfg.minimize /\ PastDecision) => final_ops = best
    /\ ipc \in {"saved", "reproduced"} =>
           /\ casefile.st = "saved"
           /\ casefile.ops_txt = JoinLines(final_ops)
           /\ casefile.meta = Meta(res)

\* A signal-terminated iteration was minimized to a shorter program and
\* saved, without --save-all.
C13_Witness ==
    /\ ipc = "saved"
    /\ res.crashed
    /\ cfg.minimize
    /\ ~cfg.save_all
    /\ Len(final_ops) < Len(ops)
    /\ casefile.st = "saved"

\* C14: run_fiskta reports a child killed by signal n as crashed, with
\* signal_num n and exit_code 128 + n, and reports no other ending of the
\* child as crashed.
C14_SignalsClassified ==
    /\ child.kind = "signal" =>
          /\ res.crashed
          /\ res.signal_num = child.n
          /\ res.exit_code = 128 + child.n
    /\ res.crashed => child.kind = "signal"

C14_Witness ==
    /\ child = [kind |-> "signal", n |-> 11]
    /\ res.crashed
    /\ res.exit_code = 139

\* C15: over a corpus of a 100-byte and a 200-byte entry, mutate_splice
\* applied in sequence from a corpus entry, each output fed to the next
\* call, never returns more than 300 bytes.
C15_SpliceAtMost300 == Len(data) <= 300

\* C19: a byte mutator whose precondition is unmet returns its input and
\* does not raise: bit flip, byte flip and chunk repeat on empty data, byte
\* delete and chunk delete on data of at most one byte, splice when the
\* corpus holds fewer than two entries.
C19_UnmetPreconditionReturnsInput ==
    /\ data # Raised
    /\ (last \in {"mutate_bit_flip", "mutate_byte_flip", "mutate_repeat"} /\ prev = <<>>)
           => data = prev
    /\ (last \in {"mutate_byte_delete", "mutate_chunk_delete"} /\ Len(prev) <= 1)
           => data = prev
    /\ (last = "mutate_splice" /\ Len(corpus) < 2) => data = prev

\* mutate_byte_delete was handed a single byte and returned it.
C19_Witness ==
    /\ last = "mutate_byte_delete"
    /\ Len(prev) = 1
    /\ data = prev

\* C16: with --cases n, every worker's loop ends: a worker runs no iteration
\* whose id is not below n, and a worker that is in its loop leaves it.
C16_FixedCountLoopStops ==
    /\ [](\A p \in ran : p.id < cfg.cases[1])
    /\ \A w \in AllWorkers : (wpc[w] = "top") ~> ~WorkerAlive(w)

\* C18 as stated: for min_ops <= max_ops, a program of gen_random_program
\* holds between min_ops and max_ops operations and at most that number
\* minus one clause links, each between two consecutive operations.
C18_LinksBelowOpsMinusOne ==
    (ipc = "exec" /\ mode = "fresh") =>
        LET shape == Shape(ops) IN
        /\ Count(shape, "op") \in cfg.min_ops .. cfg.max_ops
        /\ Count(shape, "link") <= Count(shape, "op") - 1
        /\ LinksBetweenOps(shape)

\* C18: for 0 <= min_ops <= max_ops, a program of gen_random_program holds
\* between min_ops and max_ops operations; it holds no clause link when it
\* holds no operation, and otherwise at most that number minus one, each
\* between two consecutive operations.
C18_LinksBetweenOperations ==
    (ipc = "exec" /\ mode = "fresh") =>
        LET shape == Shape(ops) IN
        /\ 0 <= cfg.min_ops => Count(shape, "op") \in cfg.min_ops .. cfg.max_ops
        /\ Count(shape, "other") = 0
        /\ Count(shape, "op") = 0 => Count(shape, "link") = 0
        /\ Count(shape, "op") > 0 => Count(shape, "link") <= Count(shape, "op") - 1
        /\ LinksBetweenOps(shape)

\* A fresh program of two operations, the second with the argument OR, and
\* a clause link between them.
C18_Witness ==
    /\ ipc = "exec"
    /\ mode = "fresh"
    /\ Count(Shape(ops), "op") = 2
    /\ Count(Shape(ops), "link") = 1
    /\ Len(ops) = 5
    /\ ops[3] \in links
    /\ ops[4] = kw_label
    /\ ops[5] = kw_OR

\* minimize_tokens has returned final_ops.
Minimized ==
    /\ ipc \in {"save", "saved", "reproduced"}
    /\ cfg.minimize
    /\ res.exit_code # 12

\* C20: when minimize_tokens has returned a program of more than one token,
\* the deterministic target, run on that program less any one token, can
\* only give a result that is not the same failure as the original; an
\* accepted deletion restarts the scan at position 0, and minimize_tokens
\* returns only at the end of a pass that accepted no deletion.
C20_MinimizerOutputIsOneMinimal ==
    /\ []((Minimized /\ Len(final_ops) > 1) =>
             \A i \in Positions(final_ops) :
                 \A r \in Answers(RemoveAt(final_ops, i), input_data) :
                     ~same_failure(res, r))
    /\ [][(ipc = "min" /\ best' # best) => mi' = 0]_vars
    /\ [][(ipc = "min" /\ ipc' # "min") =>
             /\ ~improved
             /\ mi >= Len(best) \/ Len(best) <= 1
             /\ final_ops' = best]_vars

\* The minimizer removed a token of a crashing program and returned the two
\* that were left, after it had run each of them alone.
C20_Witness ==
    /\ ipc = "save"
    /\ Minimized
    /\ res.crashed
    /\ Len(final_ops) = 2
    /\ Len(ops) = 3
    /\ \A i \in Positions(final_ops) :
           <<RemoveAt(final_ops, i), input_data>> \in DOMAIN oracle

C30_MinimizerOnlyDeletes ==
    /\ [](ipc = "min" => best \in Subsequences(ops))
    /\ [](Minimized =>
             /\ final_ops \in Subsequences(ops)
             /\ Len(ops) >= 1 => Len(final_ops) >= 1)
    /\ [][ipc = "min" => ops' = ops]_vars

\* The minimizer was given three different tokens, removed the one in the
\* middle and the last one, and returned the first alone.
C30_Witness ==
    /\ ipc = "save"
    /\ Minimized
    /\ Len(ops) = 3
    /\ ops[1] # ops[2]
    /\ ops[2] # ops[3]
    /\ ops[1] # ops[3]
    /\ final_ops = <<ops[1]>>

\* C21: minimize_tokens, once called, returns, whatever program it is given
\* and whatever the target answers, a target whose result changes between
\* executions included: a turn of the scan that is no rejection (a rejection
\* moves on to position mi + 1) leaves best one token shorter, and the end
\* of a pass that accepted no deletion ends the loop.
C21_MinimizerTerminates ==
    /\ (ipc = "min") ~> (ipc = "save")
    /\ [][(ipc = "min" /\ mi < Len(best) /\ Len(best) > 1 /\ mi' # mi + 1)
            => Len(best') = Len(best) - 1]_vars
    /\ [][(ipc = "min" /\ ~improved /\ (mi >= Len(best) \/ Len(best) <= 1))
            => ipc' = "save"]_vars

\* The flaky target: the minimizer has returned a single token of a program
\* of three.
C21_Witness ==
    /\ target = "flaky"
    /\ ipc = "save"
    /\ Minimized
    /\ Len(ops) = 3
    /\ Len(final_ops) = 1

\* C26: same_failure is an equivalence on the results of run_fiskta: each
\* result is the same failure as itself, the verdict does not depend on the
\* order of the two results, two results that are each the same failure as a
\* third are the same failure, and a signal-terminated result is never the
\* same failure as one that is not signal-terminated.
C26_SameFailureIsEquivalence ==
    LET n == DOMAIN judge.rs IN
    /\ \A i \in n : judge.same[<<i, i>>]
    /\ \A i, j \in n : judge.same[<<i, j>>] => judge.same[<<j, i>>]
    /\ \A i, j, k \in n :
         (judge.same[<<i, j>>] /\ judge.same[<<j, k>>]) => judge.same[<<i, k>>]
    /\ \A i, j \in n :
         judge.same[<<i, j>>] => (judge.rs[i].crashed <=> judge.rs[j].crashed)

\* The case_<id>.* files among files.
CaseFilesOf(id, files) == {f \in files : f[1] = id}

\* What the step of worker w from stats to stats' shows of the result it
\* counted: interesting = timed_out or crashed or exit_code in [2, 10, 11, 14]
\* or save_all, with crashed or a code in [10, 11, 14] counted under crashed.
CountedInteresting(w) ==
    \/ stats'[w].timeouts > stats[w].timeouts
    \/ stats'[w].crashed > stats[w].crashed
    \/ \E c \in {2, 10, 11, 14} \cap Codes : stats'[w].exits[c] > stats[w].exits[c]
    \/ cfg.save_all

\* C22: when run_fiskta has returned in an iteration, the worker goes on to
\* save_case exactly when the result is interesting; save_case, once
\* through, has written the three files of one case under the iteration's
\* id and no other file, and saved is one higher; an iteration whose result
\* is not interesting ends with no file of its id and with saved as it was.
C22_SavedIffInteresting ==
    [][\A w \in Workers :
         LET id == CaseId(w, case_iter[w], cfg.workers) IN
         /\ (wpc[w] = "run" /\ stats'[w].total > stats[w].total) =>
              /\ CountedInteresting(w) <=> wpc'[w] = "save_input"
              /\ ~CountedInteresting(w) <=> wpc'[w] = "flush"
              /\ stats'[w].saved = stats[w].saved
              /\ wpc'[w] = "flush" => CaseFilesOf(id, casefiles') = {}
         /\ wpc'[w] # wpc[w] =>
              casefiles' \ casefiles \subseteq {id} \X Artifacts
         /\ (wpc[w] = "save_meta" /\ wpc'[w] = "flush") =>
              /\ CaseFilesOf(id, casefiles') = {id} \X Artifacts
              /\ casefiles' \ CaseFilesOf(id, casefiles')
                   = casefiles \ CaseFilesOf(id, casefiles)
              /\ stats'[w].saved = stats[w].saved + 1
         /\ (wpc[w] \notin {"run", "save_input", "save_meta"} \/ wpc'[w] = wpc[w]) =>
              /\ stats'[w].saved = stats[w].saved
              /\ CaseFilesOf(id, casefiles') = CaseFilesOf(id, casefiles)]_vars

\* Without --save-all, a worker has run two cases: the target returned 0 in
\* one, which left no file, and 10 in the other, which was saved.
C22_Witness ==
    /\ ~cfg.save_all
    /\ wpc[0] = "flush"
    /\ stats[0].total = 2
    /\ stats[0].exits[0] = 1
    /\ stats[0].exits[10] = 1
    /\ stats[0].saved = 1
    /\ Cardinality(casefiles) = 3

RECURSIVE SumOver(_, _)
SumOver(exits, codes) ==
    IF codes = {} THEN 0
    ELSE LET c == CHOOSE x \in codes : TRUE
         IN exits[c] + SumOver(exits, codes \ {c})

\* The relations between the counters of a stats record.
Consistent(s) ==
    /\ s.total = SumOver(s.exits, Codes)
    /\ s.timeouts = s.exits[TIMEOUT_CODE]
    /\ s.crashed + s.timeouts <= s.saved
    /\ s.saved <= s.total

\* Worker w stands between two iterations or has returned.
BetweenIterations(w) ==
    wpc[w] \in {"top", "flush", "flush_write", "flush_rename", "returned", "raised"}

\* C25: in a worker's stats after each of its iterations, in every snapshot
\* file, temp file of a snapshot, aggregate and run summary, total is the
\* sum of the exit-code counts, timeouts is the count of code -2, and
\* crashed + timeouts <= saved <= total.
C25_CountersConsistent ==
    /\ \A w \in Workers :
         /\ BetweenIterations(w) => Consistent(stats[w])
         /\ statsfile[w].st = "full" => Consistent(statsfile[w].data)
         /\ tmpfile[w].st = "full" => Consistent(tmpfile[w].data)
         /\ \A s \in flushed[w] : Consistent(s)
    /\ Consistent(agg_stats)
    /\ summary.st = "full" => Consistent(summary.data)

\* The summary of an interrupted run without --save-all: two cases were
\* counted, a timeout and a return with code 10, and both were saved.
C25_Witness ==
    /\ summary.st = "full"
    /\ interrupted
    /\ ~cfg.save_all
    /\ summary.data.total = 2
    /\ summary.data.timeouts = 1
    /\ summary.data.crashed = 1
    /\ summary.data.exits[10] = 1
    /\ summary.data.saved = 2

\* The records that Aggregate adds up: the stats the workers returned, or
\* else what their snapshot files hold.
Aggregated ==
    IF worker_stats THEN stats ELSE [w \in AllWorkers |-> FileStats(statsfile[w])]

\* The workers in every order.
WorkerOrders ==
    {p \in [1 .. cfg.workers -> Workers] : \A i, j \in DOMAIN p : p[i] = p[j] => i = j}

\* The aggregation loop, taking the workers in the order given.
RECURSIVE SumIn(_, _)
SumIn(order, f) ==
    IF order = <<>> THEN ZeroStats
    ELSE Add(SumIn(SubSeq(order, 1, Len(order) - 1), f), f[order[Len(order)]])

\* C23: the aggregate is what adding up the workers' records gives in every
\* order of the workers: each counter is the sum of the workers' counters,
\* each exit-code entry the sum of their entries for the code, and the
\* summary file holds the aggregate.
C23_SummaryOrderIndependent ==
    /\ cpc = "cleanup" =>
         /\ \A p \in WorkerOrders : SumIn(p, Aggregated) = agg_stats
         /\ agg_stats.total = SumOver([w \in Workers |-> Aggregated[w].total], Workers)
         /\ \A c \in Codes :
              agg_stats.exits[c] = SumOver([w \in Workers |-> Aggregated[w].exits[c]], Workers)
    /\ summary.st = "full" => summary.data = agg_stats

\* Two workers have returned different stats, one a timeout and the other a
\* crash counted for code 10, and both records were added up.
C23_Witness ==
    /\ cpc = "cleanup"
    /\ worker_stats
    /\ cfg.workers = 2
    /\ stats[0].timeouts = 1
    /\ stats[1].exits[10] = 1
    /\ agg_stats.total = 2

\* C24: between two consecutive polls of the polling loop, the total that
\* the progress display shows, last_agg['total'] once PollDisplay has run,
\* does not go down, however the workers' flushes and the interrupts that
\* the bare except swallows fall between the coordinator's reads.
C24_DisplayedTotalMonotone ==
    [][(cpc \in {"poll", "read"} /\ cpc' \in {"poll", "read"}) =>
          /\ last_agg' >= last_agg
          /\ (cpc = "read" /\ cpc' = "poll") => (agg' = last_agg' /\ agg' >= agg)]_vars

\* A poll summed less than the poll before it had shown, because a read was
\* cut short, and the display kept the earlier total.
C24_Witness ==
    /\ cpc = "read"
    /\ pollIdx = cfg.workers
    /\ agg < last_agg

\* What the "Interrupted" loop would take from the snapshot files as they
\* stand.
FromFiles == SumUpTo([w \in AllWorkers |-> FileStats(statsfile[w])], cfg.workers)

\* C27: when result.get() has returned the workers' stats, the snapshot
\* files hold each worker's last flush, and adding up what the files hold
\* gives the counters and the histogram that adding up the returned stats
\* gives.
C27_SummaryPathsAgree ==
    (worker_stats /\ cpc \in {"close", "aggregate", "cleanup"}) =>
        /\ FromFiles = SumUpTo(stats, cfg.workers)
        /\ cpc = "cleanup" => agg_stats = FromFiles

\* Two workers have returned after one case each, a timeout and a saved
\* crash, and their snapshot files are still in the run directory.
C27_Witness ==
    /\ worker_stats
    /\ cpc = "aggregate"
    /\ cfg.workers = 2
    /\ statsfile[0].st = "full"
    /\ statsfile[1].st = "full"
    /\ stats[0].timeouts = 1
    /\ stats[1].crashed = 1

\* C28: once run_summary.txt is written, the run directory holds no
\* worker_<i>_stats.txt, no worker_<i>_stats.tmp and no tmp_<i>_<id>.bin,
\* whether the run completed or was interrupted.
C28_NoTransientFilesLeft ==
    summary.st = "full" =>
        /\ \A w \in Workers : statsfile[w].st = "absent"
        /\ \A w \in Workers : tmpfile[w].st = "absent"
        /\ tmpbin = {}

\* C29: once a run has ended, by completion or by an interrupt, every case
\* id that has its case_<id>.ops.txt also has its case_<id>.input.bin and its
\* case_<id>.meta.txt.
C29_SavedCasesComplete ==
    (cpc = "done" /\ phase = "SUMMARIZED") =>
        \A f \in casefiles :
            f[2] = OpsTxt => {<<f[1], InputBin>>, <<f[1], MetaTxt>>} \subseteq casefiles

=============================================================================
